---- MODULE Spec2Model ----
(***************************************************************************)
(* A model of neptune/connection.py (ConnectionManager) and                *)
(* neptune/client.py (NeptuneClient): session ownership and lifecycle,     *)
(* the retry loop of execute_sparql / execute_opencypher / execute_gremlin *)
(* and the single-attempt reset steps.                                     *)
(*                                                                         *)
(* A coroutine is cut at its suspension points only: the post of a         *)
(* request and the backoff sleep.  Everything a coroutine does between two *)
(* suspension points is one action.                                        *)
(***************************************************************************)
EXTENDS Integers, Sequences, FiniteSets, TLC

\* ------------------------------------------------------------------ bounds
MaxSessions == 2      \* aiohttp sessions the manager may create in one run
MaxQueryLen == 1      \* tokens in a query text

\* --------------------------------------------------------------- constants
\* one attempt more than the loop allows
max_retries_4 == 3 + 1
max_retries == 3
base_timeout_default == 120
base_timeout_delete == 300
backoff_base == 5
initiate_timeout == 60
perform_timeout == 600

None == "None"

\* --------------------------------------------------------------- sessions
\* Sessions are numbered: NoSession stands for client_session being None,
\* BorrowedId is the session handed to the constructor (if any), the
\* sessions after it are created by init_sparql.
NoSession == 0
BorrowedId == 1
CreatedIds == (BorrowedId + 1)..(BorrowedId + MaxSessions)
SessionIds == {BorrowedId} \cup CreatedIds
SessionStates == {"absent", "open", "closed_by_manager", "closed_by_caller"}

\* ClientSession.closed
Closed(heap, s) == heap[s] \in {"closed_by_manager", "closed_by_caller"}

\* ----------------------------------------------------------------- queries
Tokens == {"select", "delete", "Clear"}

\* str.upper() on one token
Upper(tok) ==
    CASE tok = "select" -> "SELECT"
      [] tok = "delete" -> "DELETE"
      [] tok = "Clear"  -> "CLEAR"
      [] tok = "ask"    -> "ASK"

RECURSIVE SeqsUpTo(_)
SeqsUpTo(n) ==
    IF n = 0 THEN {<<>>}
    ELSE LET shorter == SeqsUpTo(n - 1)
         IN  shorter \cup {Append(q, t) : q \in {r \in shorter : Len(r) = n - 1}, t \in Tokens}

Queries == SeqsUpTo(MaxQueryLen) \ {<<>>}

\* keyword in formatted_query.upper()
KeywordIn(keyword, query) == \E i \in 1..Len(query) : Upper(query[i]) = keyword

QueryKinds == {"sparql", "opencypher", "gremlin"}
ResetKinds == {"initiate", "perform"}
Kinds == QueryKinds \cup ResetKinds

\* fast_reset_database runs the two reset steps in one call
FastKind == "fast"

\* What the /system endpoint can answer: result["payload"]["token"] of an
\* initiate response ("no_token": the key is missing), result.get("status")
\* of a perform response ("missing": no status key).
ResetTokens == {"tokA", "tokB"}
InitiatePayloads == ResetTokens \cup {"no_token"}
Statuses == {"200 OK", "200", "400 Bad Request", "missing"}

\* -------------------------------------------------------------- exceptions
\* What an awaited post can end in.
Outcomes == {"ok", "timeout", "connector", "http", "json", "disconnect"}

\* The exception class each failing outcome surfaces as.
ExcOf(outcome) ==
    CASE outcome = "timeout"    -> "TimeoutError"
      [] outcome = "connector"  -> "ClientConnectorError"
      [] outcome = "http"       -> "ClientResponseError"
      [] outcome = "json"       -> "JSONDecodeError"
      [] outcome = "disconnect" -> "ServerDisconnectedError"
      [] outcome = "bad_format" -> "InvalidResponseFormat"

\* isinstance(e, aiohttp.ClientError)
IsClientError(exc) ==
    exc \in {"ClientConnectorError", "ClientResponseError", "ServerDisconnectedError"}

NoExc == [exc |-> None, wrapped |-> FALSE, attempt |-> 0]

\* ------------------------------------------------- ConnectionManager state
\* cm is the ConnectionManager object:
\*   client_session  NoSession or the id of the aiohttp session it holds
\*   owns_session    _owns_session
\*   sparql_endpoint None or "url"
\*   credentials     "unset" (attribute never assigned), "None"
\*                   (get_credentials() returned None) or "ok"
\* heap maps every session id to the state of that aiohttp session.

\* ConnectionManager.__init__
NewManager(session) ==
    [client_session  |-> session,
     owns_session    |-> (session = NoSession),
     sparql_endpoint |-> None,
     credentials     |-> "unset"]

\* close() without the ownership test
CloseOp_AnySession(m, h) ==
    IF m.client_session # NoSession /\ ~Closed(h, m.client_session)
    THEN [cm      |-> [m EXCEPT !.client_session = NoSession],
          heap    |-> [h EXCEPT ![m.client_session] = "closed_by_manager"],
          invoked |-> TRUE,
          raised  |-> FALSE]
    ELSE [cm |-> m, heap |-> h, invoked |-> FALSE, raised |-> FALSE]

\* close() reading .closed without testing client_session for None first
CloseOp_NoNoneTest(m, h) ==
    IF m.owns_session /\ m.client_session = NoSession
    THEN [cm |-> m, heap |-> h, invoked |-> FALSE, raised |-> TRUE]
    ELSE IF m.owns_session /\ ~Closed(h, m.client_session)
    THEN [cm      |-> [m EXCEPT !.client_session = NoSession],
          heap    |-> [h EXCEPT ![m.client_session] = "closed_by_manager"],
          invoked |-> TRUE,
          raised  |-> FALSE]
    ELSE [cm |-> m, heap |-> h, invoked |-> FALSE, raised |-> FALSE]

\* ConnectionManager.close.  invoked: client_session.close() was called;
\* raised: evaluating the condition raised (the `and` chain short-circuits,
\* so .closed is read only on a session that is not None).
CloseOp(m, h) ==
    IF m.owns_session /\ m.client_session # NoSession /\ ~Closed(h, m.client_session)
    THEN [cm      |-> [m EXCEPT !.client_session = NoSession],
          heap    |-> [h EXCEPT ![m.client_session] = "closed_by_manager"],
          invoked |-> TRUE,
          raised  |-> FALSE]
    ELSE [cm |-> m, heap |-> h, invoked |-> FALSE, raised |-> FALSE]

\* acquisition that does not look at .closed
NeedsNewSession_NoneOnly(m, h) == m.client_session = NoSession

\* self.client_session is None or self.client_session.closed
NeedsNewSession(m, h) ==
    m.client_session = NoSession \/ Closed(h, m.client_session)

CanCreate(h) == \E s \in CreatedIds : h[s] = "absent"

\* aiohttp.ClientSession(): the next fresh session object
NewId(h) ==
    CHOOSE s \in CreatedIds :
        h[s] = "absent" /\ \A t \in CreatedIds : t < s => h[t] # "absent"

\* an except branch that drops the session only when it is owned
Unwind_OwnedOnly(m, h) ==
    LET c == IF m.owns_session THEN CloseOp(m, h)
             ELSE [cm |-> m, heap |-> h, invoked |-> FALSE, raised |-> FALSE]
    IN  [cm   |-> [c.cm EXCEPT !.sparql_endpoint = None],
         heap |-> c.heap,
         ok   |-> FALSE]

\* an except branch that leaves the endpoint set
Unwind_KeepEndpoint(m, h) ==
    LET c == IF m.owns_session THEN CloseOp(m, h)
             ELSE [cm |-> m, heap |-> h, invoked |-> FALSE, raised |-> FALSE]
    IN  [cm   |-> [c.cm EXCEPT !.client_session = NoSession],
         heap |-> c.heap,
         ok   |-> FALSE]

\* The except branch of init_sparql.
Unwind(m, h) ==
    LET c == IF m.owns_session THEN CloseOp(m, h)
             ELSE [cm |-> m, heap |-> h, invoked |-> FALSE, raised |-> FALSE]
    IN  [cm   |-> [c.cm EXCEPT !.client_session = NoSession, !.sparql_endpoint = None],
         heap |-> c.heap,
         ok   |-> FALSE]

\* Where init_sparql can raise: "credentials" is boto3.Session() or
\* get_credentials() raising, "ClientSession" is the aiohttp constructor
\* raising (reached only when a session has to be created).
InitFails(m, h) ==
    {"none", "credentials"}
        \cup (IF NeedsNewSession(m, h) THEN {"ClientSession"} ELSE {})

\* What get_credentials() can return on a run that gets that far: a
\* credentials object or None.
GotChoices(fail) ==
    IF fail \in {"none", "ClientSession"} THEN {"ok", "None"} ELSE {"ok"}

\* ConnectionManager.init_sparql.  got is what get_credentials() returned.
InitSparqlOp(m, h, fail, got) ==
    CASE fail = "credentials" -> Unwind(m, h)
      [] fail = "ClientSession" -> Unwind([m EXCEPT !.credentials = got], h)
      [] fail = "none" ->
            IF NeedsNewSession(m, h)
            THEN [cm   |-> [m EXCEPT !.credentials = got,
                                     !.client_session = NewId(h),
                                     !.owns_session = TRUE,
                                     !.sparql_endpoint = "url"],
                  heap |-> [h EXCEPT ![NewId(h)] = "open"],
                  ok   |-> TRUE]
            ELSE [cm   |-> [m EXCEPT !.credentials = got,
                                     !.sparql_endpoint = "url"],
                  heap |-> h,
                  ok   |-> TRUE]

\* NeptuneClient.close
ClientCloseOp(init, m, h) ==
    IF init
    THEN LET c == CloseOp(m, h)
         IN  [initialized |-> FALSE, cm |-> c.cm, heap |-> c.heap,
              invoked |-> c.invoked, raised |-> c.raised]
    ELSE [initialized |-> init, cm |-> m, heap |-> h,
          invoked |-> FALSE, raised |-> FALSE]

\* ------------------------------------------------------------- retry policy
\* the delete classification applied to every protocol
BaseTimeout_AnyKind(kind, query) ==
    IF KeywordIn("DELETE", query) \/ KeywordIn("CLEAR", query)
    THEN base_timeout_delete
    ELSE base_timeout_default

\* base_timeout of execute_sparql; the other protocols use 120 throughout.
BaseTimeout(kind, query) ==
    IF kind = "sparql" /\ (KeywordIn("DELETE", query) \/ KeywordIn("CLEAR", query))
    THEN base_timeout_delete
    ELSE base_timeout_default

\* timeout_seconds of the attempt made with the given retry_count
TimeoutSeconds(kind, query, retry_count) ==
    CASE kind = "initiate" -> initiate_timeout
      [] kind = "perform"  -> perform_timeout
      [] OTHER -> BaseTimeout(kind, query) * (retry_count + 1)

\* a backoff exponent that is off by one
Delay_OffByOne(retry_count) == backoff_base * (2 ^ retry_count)

\* delay = 5 * (2 ** (retry_count - 1))
Delay(retry_count) == backoff_base * (2 ^ (retry_count - 1))

\* a retry branch catching every connection error, not only the connector's
IsRetryable_Disconnect(kind, outcome) ==
    kind \in QueryKinds /\ outcome \in {"timeout", "connector", "disconnect"}

\* retry branches that every operation has, the reset steps included
IsRetryable_AnyKind(kind, outcome) == outcome \in {"timeout", "connector"}

\* except asyncio.TimeoutError / except aiohttp.ClientConnectorError
IsRetryable(kind, outcome) ==
    kind \in QueryKinds /\ outcome \in {"timeout", "connector"}

\* an except branch that re-raises one failure too late
ShouldRetry_OffByOne(retry_count) == retry_count <= max_retries

\* if retry_count < max_retries: (in the two retryable except branches)
ShouldRetry(retry_count) == retry_count < max_retries

\* while retry_count < max_retries:
LoopCond(retry_count) == retry_count < max_retries

\* a backoff branch that skips the wait before the first retry
NeedsBackoff_Late(retry_count) == retry_count > 1

\* if retry_count > 0: (the backoff branch)
NeedsBackoff(retry_count) == retry_count > 0

\* The guard after the acquisition step of each operation.
NotInitialized(kind, m) ==
    m.client_session = NoSession \/ (kind = "sparql" /\ m.sparql_endpoint = None)

\* What reaches the caller when exc is raised inside the outer try: the
\* query methods wrap an aiohttp.ClientError in a plain Exception and let
\* anything else through; the reset steps wrap every Exception.
Raise(kind, exc, attempt) ==
    [exc     |-> exc,
     wrapped |-> IF kind \in QueryKinds THEN IsClientError(exc) ELSE TRUE,
     attempt |-> attempt]

\* -------------------------------------------------------------------- state
Calls == {"c1", "c2"}

VARIABLES
    cm,           \* the ConnectionManager object
    heap,         \* aiohttp sessions: id -> SessionStates
    borrowed,     \* a session was passed to ConnectionManager.__init__
    initialized,  \* NeptuneClient._initialized
    call,         \* per call of execute_* / reset step: its frame
    ev,           \* what the last step did
    init_result,  \* outcome of the init_sparql run by the last step, if any
    shell,        \* NeptuneQueryShell: the /reset command in progress
    svc,          \* QueryExecutionService: the execute_query in progress
    sig,          \* the request one execute_* / reset call builds and signs
    resp,         \* the response one query call receives and what it makes of it
    test          \* the frame of NeptuneClient.test_connection

vars == <<cm, heap, borrowed, initialized, call, ev, init_result, shell, svc, sig, resp,
          test>>

\* The collaborators around the client, untouched by the client's own steps.
around == <<shell, svc, sig, resp, test>>

\* The frame of one call: position, arguments, loop locals and a record of
\* what it sent, waited for and finally raised or returned.
IdleCall ==
    [pc          |-> "idle",
     kind        |-> None,
     query       |-> <<>>,
     retry_count |-> 0,
     sent        |-> 0,       \* requests handed to the session
     inflight    |-> 0,       \* requests not yet answered
     timeouts    |-> <<>>,    \* timeout of each request sent
     waits       |-> <<>>,    \* each asyncio.sleep(delay) started
     outcomes    |-> <<>>,    \* how each attempt ended ("not_sent": post raised)
     raised      |-> NoExc,
     returned    |-> FALSE,
     stage       |-> None,    \* fast reset: the step it is in
     token       |-> None,    \* the reset token passed in or obtained
     status      |-> None,    \* status string of the perform response
     value       |-> None,    \* what the call returned
     signed      |-> 0,       \* SigV4Auth.add_auth calls made
     headers     |-> <<>>,    \* per request sent: the signing its headers stem from
     reqs        |-> <<>>]    \* per request sent: action and token on the wire

\* The collaborators before they are started.
ShellOff == [pc |-> "off"]
SvcOff == [pc |-> "off"]
SigOff == [pc |-> "off"]
RespOff == [pc |-> "off"]
TestOff == [pc |-> "off"]

AroundOff ==
    shell = ShellOff /\ svc = SvcOff /\ sig = SigOff /\ resp = RespOff /\ test = TestOff

Init ==
    /\ AroundOff
    /\ borrowed \in BOOLEAN
    /\ cm = NewManager(IF borrowed THEN BorrowedId ELSE NoSession)
    /\ heap = [s \in SessionIds |->
                  IF s = BorrowedId /\ borrowed THEN "open" ELSE "absent"]
    /\ initialized = FALSE
    /\ call = [c \in Calls |-> IdleCall]
    /\ ev = "new"
    /\ init_result = "none"

\* The frame after the call raised.
Raised(cl, r) == [cl EXCEPT !.pc = "done", !.raised = r]

\* The operation a frame is executing: a fast reset is in one of its steps.
StepOf(cl) == IF cl.kind = FastKind THEN cl.stage ELSE cl.kind

\* a perform request that carries a fixed token instead of the one obtained
WireRequest_StaleToken(cl) ==
    CASE StepOf(cl) = "initiate" -> [action |-> "initiateDatabaseReset", token |-> None]
      [] StepOf(cl) = "perform"  -> [action |-> "performDatabaseReset", token |-> "tokA"]
      [] OTHER -> [action |-> cl.kind, token |-> None]

\* request_data of the request a frame posts
WireRequest(cl) ==
    CASE StepOf(cl) = "initiate" -> [action |-> "initiateDatabaseReset", token |-> None]
      [] StepOf(cl) = "perform"  -> [action |-> "performDatabaseReset", token |-> cl.token]
      [] OTHER -> [action |-> cl.kind, token |-> None]

\* a post that hands the request over whatever state the session is in
Post_Unchecked(cl, m, h) ==
    [cl EXCEPT !.pc = "inflight",
               !.sent = @ + 1,
               !.inflight = @ + 1,
               !.timeouts = Append(@, TimeoutSeconds(StepOf(cl), cl.query, cl.retry_count)),
               !.headers = Append(@, cl.signed),
               !.reqs = Append(@, WireRequest(cl))]

\* self.client_session.post(...): on a missing session the attribute access
\* raises, on a closed one aiohttp raises RuntimeError("Session is closed");
\* both are caught by `except Exception` and re-raised.
Post(cl, m, h) ==
    IF m.client_session = NoSession
    THEN Raised([cl EXCEPT !.outcomes = Append(@, "not_sent")],
                Raise(cl.kind, "AttributeError", cl.retry_count + 1))
    ELSE IF Closed(h, m.client_session)
    THEN Raised([cl EXCEPT !.outcomes = Append(@, "not_sent")],
                Raise(cl.kind, "RuntimeError", cl.retry_count + 1))
    ELSE [cl EXCEPT !.pc = "inflight",
                    !.sent = @ + 1,
                    !.inflight = @ + 1,
                    !.timeouts = Append(@, TimeoutSeconds(StepOf(cl), cl.query, cl.retry_count)),
                    !.headers = Append(@, cl.signed),
                    !.reqs = Append(@, WireRequest(cl))]

\* One pass from the head of the while loop to the next suspension point.
LoopHead(cl, m, h) ==
    IF ~LoopCond(cl.retry_count)
    THEN Raised(cl, [exc |-> "UnexpectedCodePath", wrapped |-> FALSE,
                     attempt |-> cl.retry_count])
    ELSE IF NeedsBackoff(cl.retry_count)
    THEN [cl EXCEPT !.pc = "sleeping", !.waits = Append(@, Delay(cl.retry_count))]
    ELSE Post(cl, m, h)

\* The frame after the awaited post of a query call ended in outcome o.
AfterResponse(cl, o, m, h) ==
    LET cl1 == [cl EXCEPT !.inflight = @ - 1, !.outcomes = Append(@, o)]
        rc  == cl.retry_count + 1
    IN  IF o = "ok"
        THEN [cl1 EXCEPT !.pc = "done", !.returned = TRUE, !.value = "result"]
        ELSE IF IsRetryable(cl.kind, o)
        THEN IF ShouldRetry(rc)
             THEN LoopHead([cl1 EXCEPT !.retry_count = rc], m, h)
             ELSE Raised([cl1 EXCEPT !.retry_count = rc],
                         Raise(cl.kind, ExcOf(o), cl.retry_count + 1))
        ELSE Raised(cl1, Raise(cl.kind, ExcOf(o), cl.retry_count + 1))

\* An operation after its acquisition step, up to the first suspension
\* point: the not-initialized guard, the signing of the request (once,
\* ahead of the loop) and the first post.
Begin(cl, m, h) ==
    IF NotInitialized(StepOf(cl), m)
    THEN Raised(cl, [exc |-> "NotInitialized", wrapped |-> FALSE, attempt |-> 0])
    ELSE IF m.credentials # "ok"
    THEN Raised(cl, Raise(cl.kind, "AttributeError", 0))
    ELSE LET signedCl == [cl EXCEPT !.signed = @ + 1]
         IN  IF cl.kind \in QueryKinds
             THEN LoopHead(signedCl, m, h)
             ELSE Post(signedCl, m, h)

BeginEv(cl, m) ==
    IF NotInitialized(StepOf(cl), m) THEN "enter_not_initialized"
    ELSE IF m.credentials # "ok" THEN "enter_no_credentials"
    ELSE "enter_acquired"

\* The same events when the manager method was called by NeptuneClient.
ClientEv(e) ==
    CASE e = "enter_not_initialized" -> "client_enter_not_initialized"
      [] e = "enter_no_credentials"  -> "client_enter_no_credentials"
      [] e = "enter_acquired"        -> "client_enter_acquired"

ClientEvs == {"client_not_initialized", "client_enter_not_initialized",
              "client_enter_no_credentials", "client_enter_acquired"}

\* a client whose methods skip the test of _initialized
ClientReady_NoTest(init) == TRUE

\* if not self._initialized: raise Exception("Neptune client not initialized")
ClientReady(init) == init

\* ------------------------------------------------------------------ actions
\* execute_sparql / execute_opencypher / execute_gremlin /
\* initiate_database_reset / perform_database_reset, from entry to the
\* first suspension point: acquisition, the not-initialized guard, signing,
\* and the first pass of the loop.
EnterFrom(c, kind, query, viaClient) ==
    /\ call[c].pc = "idle"
    /\ \E fail \in (IF NeedsNewSession(cm, heap) THEN InitFails(cm, heap) ELSE {"skip"}),
          got \in {"ok", "None"} :
        /\ got \in GotChoices(fail)
        /\ (fail = "none") => CanCreate(heap)
        /\ LET a  == IF fail = "skip"
                     THEN [cm |-> cm, heap |-> heap, ok |-> TRUE]
                     ELSE InitSparqlOp(cm, heap, fail, got)
               cl == [IdleCall EXCEPT
                         !.kind = kind,
                         !.query = IF kind \in QueryKinds THEN query ELSE <<>>,
                         !.stage = IF kind = FastKind THEN "initiate" ELSE None,
                         !.token = IF kind = "perform" THEN query[1] ELSE None]
           IN  /\ cm' = a.cm
               /\ heap' = a.heap
               /\ init_result' = IF fail = "skip" THEN "none"
                                 ELSE IF a.ok THEN "ok" ELSE "failed"
               /\ call' = [call EXCEPT ![c] = Begin(cl, a.cm, a.heap)]
               /\ ev' = IF viaClient THEN ClientEv(BeginEv(cl, a.cm))
                        ELSE BeginEv(cl, a.cm)
    /\ UNCHANGED <<borrowed, initialized>>

\* a retry counter kept on the manager, one for all calls
Store_SharedCounter(frames, c, cl) ==
    [d \in Calls |-> IF d = c THEN cl
                     ELSE IF frames[d].pc = "idle" THEN frames[d]
                     ELSE [frames[d] EXCEPT !.retry_count = cl.retry_count]]

\* retry_count, timeout_seconds, delay and the signed request are locals of
\* the coroutine: a step of call c writes the frame of call c only.
Store(frames, c, cl) == [frames EXCEPT ![c] = cl]

\* A call made on the ConnectionManager itself.
Enter(c, kind, query) == EnterFrom(c, kind, query, FALSE) /\ UNCHANGED around

\* The awaited post of call c ends.
Respond(c, o) ==
    /\ call[c].pc = "inflight"
    /\ call[c].kind \in QueryKinds
    /\ call' = Store(call, c, AfterResponse(call[c], o, cm, heap))
    /\ ev' = "response"
    /\ init_result' = "none"
    /\ UNCHANGED <<cm, heap, borrowed, initialized>>
    /\ UNCHANGED around

\* a status test that accepts every status starting with 200
ResetSucceeded_Prefix(status) == status \in {"200 OK", "200"}

\* result.get("status") == "200 OK"
ResetSucceeded(status) == status = "200 OK"

\* a fast reset that goes on to the perform step whatever initiate did
InitiateFailed_Ignored(o, payload) == FALSE

\* initiate_database_reset raised: the post failed or the response carries
\* no payload.token
InitiateFailed(o, payload) == o # "ok" \/ payload = "no_token"

\* The awaited post of a reset step (initiate_database_reset,
\* perform_database_reset, alone or inside fast_reset_database) ends in
\* outcome o; payload is the token or status of an "ok" response.  When
\* fast_reset_database got its token it enters perform_database_reset in
\* the same step: acquisition (fail, got), guard, signing, post.
RespondReset(c, o, payload, fail, got) ==
    LET cl   == call[c]
        step == StepOf(cl)
        seen == IF o = "ok" /\ step = "initiate" /\ payload = "no_token"
                THEN "bad_format" ELSE o
        cl1  == [cl EXCEPT !.inflight = @ - 1, !.outcomes = Append(@, seen)]
        goesOn == cl.kind = FastKind /\ step = "initiate" /\ ~InitiateFailed(o, payload)
    IN  /\ cl.pc = "inflight"
        /\ cl.kind \in ResetKinds \cup {FastKind}
        /\ payload \in (IF o # "ok" THEN {"none"}
                        ELSE IF step = "initiate" THEN InitiatePayloads ELSE Statuses)
        /\ fail \in (IF goesOn /\ NeedsNewSession(cm, heap)
                     THEN InitFails(cm, heap) ELSE {"skip"})
        /\ got \in GotChoices(fail)
        /\ (fail = "none") => CanCreate(heap)
        /\ IF goesOn
           THEN LET a == IF fail = "skip"
                         THEN [cm |-> cm, heap |-> heap, ok |-> TRUE]
                         ELSE InitSparqlOp(cm, heap, fail, got)
                    cl2 == [cl1 EXCEPT !.stage = "perform",
                                       !.token = IF payload \in ResetTokens
                                                 THEN payload ELSE None]
                IN  /\ cm' = a.cm
                    /\ heap' = a.heap
                    /\ init_result' = IF fail = "skip" THEN "none"
                                      ELSE IF a.ok THEN "ok" ELSE "failed"
                    /\ call' = [call EXCEPT ![c] = Begin(cl2, a.cm, a.heap)]
                    /\ ev' = BeginEv(cl2, a.cm)
           ELSE /\ call' = [call EXCEPT ![c] =
                       IF o # "ok"
                       THEN IF IsRetryable(cl.kind, o) /\ ShouldRetry(cl.retry_count + 1)
                            THEN LoopHead([cl1 EXCEPT !.retry_count = @ + 1], cm, heap)
                            ELSE Raised(cl1, Raise(cl.kind, ExcOf(o), 1))
                       ELSE IF step = "initiate"
                       THEN IF payload = "no_token"
                            THEN Raised(cl1, Raise(cl.kind, ExcOf("bad_format"), 1))
                            ELSE [cl1 EXCEPT !.pc = "done", !.returned = TRUE,
                                             !.token = payload, !.value = payload]
                       ELSE [cl1 EXCEPT !.pc = "done", !.returned = TRUE,
                                        !.status = payload,
                                        !.value = IF ResetSucceeded(payload)
                                                  THEN "True" ELSE "False"]]
                /\ ev' = "response"
                /\ init_result' = "none"
                /\ UNCHANGED <<cm, heap>>
        /\ UNCHANGED <<borrowed, initialized>>
        /\ UNCHANGED around

\* NeptuneClient.execute_sparql(query), as far as its first suspension
ClientExecuteSparqlOp(c, query) ==
    /\ ~borrowed
    /\ IF ClientReady(initialized)
       THEN EnterFrom(c, "sparql", query, TRUE)
       ELSE /\ call[c].pc = "idle"
            /\ call' = [call EXCEPT ![c] =
                   Raised([IdleCall EXCEPT !.kind = "sparql", !.query = query],
                          [exc |-> "ClientNotInitialized", wrapped |-> FALSE,
                           attempt |-> 0])]
            /\ ev' = "client_not_initialized"
            /\ init_result' = "none"
            /\ UNCHANGED <<cm, heap, borrowed, initialized>>

\* NeptuneClient.reset_database(), as far as its first suspension
ClientResetDatabaseOp(c) ==
    /\ ~borrowed
    /\ IF ClientReady(initialized)
       THEN EnterFrom(c, FastKind, <<>>, TRUE)
       ELSE /\ call[c].pc = "idle"
            /\ call' = [call EXCEPT ![c] =
                   Raised([IdleCall EXCEPT !.kind = FastKind],
                          [exc |-> "ClientNotInitialized", wrapped |-> FALSE,
                           attempt |-> 0])]
            /\ ev' = "client_not_initialized"
            /\ init_result' = "none"
            /\ UNCHANGED <<cm, heap, borrowed, initialized>>

\* A caller other than the shell uses the client.
ClientExecuteSparql(c, query) == ClientExecuteSparqlOp(c, query) /\ UNCHANGED around

ClientResetDatabase(c) == ClientResetDatabaseOp(c) /\ UNCHANGED around

\* asyncio.sleep(delay) of call c returns and the retry is posted.
Wake(c) ==
    /\ call[c].pc = "sleeping"
    /\ call' = [call EXCEPT ![c] = Post(call[c], cm, heap)]
    /\ ev' = "wake"
    /\ init_result' = "none"
    /\ UNCHANGED <<cm, heap, borrowed, initialized>>
    /\ UNCHANGED around

\* The caller takes the result or the exception; the frame is gone.
Finish(c) ==
    /\ call[c].pc = "done"
    /\ call' = [call EXCEPT ![c] = IdleCall]
    /\ ev' = "finish"
    /\ init_result' = "none"
    /\ UNCHANGED <<cm, heap, borrowed, initialized>>
    /\ UNCHANGED around

\* ConnectionManager.close()
Close ==
    /\ LET c == CloseOp(cm, heap)
       IN  cm' = c.cm /\ heap' = c.heap
    /\ ev' = "close"
    /\ init_result' = "none"
    /\ UNCHANGED <<borrowed, initialized, call>>
    /\ UNCHANGED around

\* ConnectionManager.init_sparql() called on its own
InitSparql(fail, got) ==
    /\ fail \in InitFails(cm, heap)
    /\ got \in GotChoices(fail)
    /\ (fail = "none" /\ NeedsNewSession(cm, heap)) => CanCreate(heap)
    /\ LET a == InitSparqlOp(cm, heap, fail, got)
       IN  /\ cm' = a.cm
           /\ heap' = a.heap
           /\ init_result' = IF a.ok THEN "ok" ELSE "failed"
    /\ ev' = "init_sparql"
    /\ UNCHANGED <<borrowed, initialized, call>>
    /\ UNCHANGED around

\* NeptuneClient.init()
ClientInitOp(fail, got) ==
    /\ ~borrowed
    /\ IF ~initialized
       THEN /\ fail \in InitFails(cm, heap)
            /\ got \in GotChoices(fail)
            /\ (fail = "none" /\ NeedsNewSession(cm, heap)) => CanCreate(heap)
            /\ LET a == InitSparqlOp(cm, heap, fail, got)
               IN  /\ cm' = a.cm
                   /\ heap' = a.heap
                   /\ init_result' = IF a.ok THEN "ok" ELSE "failed"
            /\ initialized' = TRUE
       ELSE /\ fail = "none" /\ got = "ok"
            /\ init_result' = "none"
            /\ UNCHANGED <<cm, heap, initialized>>
    /\ ev' = "client_init"
    /\ UNCHANGED <<borrowed, call>>

\* A caller other than test_connection initializes the client.
ClientInit(fail, got) == ClientInitOp(fail, got) /\ UNCHANGED around

\* NeptuneClient.close()
ClientClose ==
    /\ ~borrowed
    /\ LET c == ClientCloseOp(initialized, cm, heap)
       IN  cm' = c.cm /\ heap' = c.heap /\ initialized' = c.initialized
    /\ ev' = "client_close"
    /\ init_result' = "none"
    /\ UNCHANGED <<borrowed, call>>
    /\ UNCHANGED around

\* The caller closes the session it passed to the constructor.
CallerClose ==
    /\ borrowed
    /\ heap[BorrowedId] = "open"
    /\ heap' = [heap EXCEPT ![BorrowedId] = "closed_by_caller"]
    /\ ev' = "caller_close"
    /\ init_result' = "none"
    /\ UNCHANGED <<cm, borrowed, initialized, call>>
    /\ UNCHANGED around

\* The texts each query method is called with.  Only execute_sparql looks
\* into its text; the other two wrap it in a JSON document unread, so
\* one-token texts stand for all of theirs.
QueriesOf(kind) ==
    IF kind = "sparql" THEN Queries ELSE {query \in Queries : Len(query) <= 1}

\* One caller at a time issues calls; close, init and the caller's own
\* close may run at any suspension point of a call.
SeqCalls == {"c1"}

Next ==
    \/ \E c \in SeqCalls, kind \in QueryKinds :
          \E query \in QueriesOf(kind) : Enter(c, kind, query)
    \/ \E c \in SeqCalls : Enter(c, "initiate", <<>>)
    \/ \E c \in SeqCalls, tok \in ResetTokens : Enter(c, "perform", <<tok>>)
    \/ \E c \in SeqCalls : Enter(c, FastKind, <<>>)
    \/ \E c \in SeqCalls, query \in Queries : ClientExecuteSparql(c, query)
    \/ \E c \in SeqCalls : ClientResetDatabase(c)
    \/ \E c \in SeqCalls, o \in Outcomes : Respond(c, o)
    \/ \E c \in SeqCalls, o \in Outcomes, payload \in InitiatePayloads \cup Statuses \cup {"none"},
          fail \in {"skip", "none", "credentials", "ClientSession"}, got \in {"ok", "None"} :
          RespondReset(c, o, payload, fail, got)
    \/ \E c \in SeqCalls : Wake(c)
    \/ \E c \in SeqCalls : Finish(c)
    \/ Close
    \/ \E fail \in {"none", "credentials", "ClientSession"}, got \in {"ok", "None"} :
          InitSparql(fail, got)
    \/ \E fail \in {"none", "credentials", "ClientSession"}, got \in {"ok", "None"} :
          ClientInit(fail, got)
    \/ ClientClose
    \/ CallerClose

Spec == Init /\ [][Next]_vars

\* ------------------------------------------------------ concurrent callers
\* The query texts of the concurrent callers.
ConcQueries == {<<"select">>, <<"delete">>}

\* Two coroutines call the query methods of one manager; each may be
\* suspended in its post or in its backoff sleep while the other runs.
NextConc ==
    \/ \E c \in Calls, kind \in QueryKinds, query \in ConcQueries : Enter(c, kind, query)
    \/ \E c \in Calls, o \in Outcomes : Respond(c, o)
    \/ \E c \in Calls : Wake(c)
    \/ \E c \in Calls : Finish(c)

SpecConc == Init /\ [][NextConc]_vars

\* ------------------------------------------- the shell and the query service
\* How many main-menu commands the shell reads before it exits.
MaxCommands == 2

\* Typed lines are sequences of characters.
yes == <<"y", "e", "s">>
DELETE_ALL_DATA ==
    <<"D", "E", "L", "E", "T", "E", " ", "A", "L", "L", " ", "D", "A", "T", "A">>

Whitespace == {" ", "\t"}

UpperChars ==
    <<"A", "B", "C", "D", "E", "F", "G", "H", "I", "J", "K", "L", "M",
      "N", "O", "P", "Q", "R", "S", "T", "U", "V", "W", "X", "Y", "Z">>
LowerChars ==
    <<"a", "b", "c", "d", "e", "f", "g", "h", "i", "j", "k", "l", "m",
      "n", "o", "p", "q", "r", "s", "t", "u", "v", "w", "x", "y", "z">>

\* str.lower() on one character
LowerChar(ch) ==
    IF \E i \in 1..Len(UpperChars) : UpperChars[i] = ch
    THEN LowerChars[CHOOSE i \in 1..Len(UpperChars) : UpperChars[i] = ch]
    ELSE ch

\* str.lower()
Lower(line) == [i \in 1..Len(line) |-> LowerChar(line[i])]

RECURSIVE LStrip(_)
LStrip(line) ==
    IF line # <<>> /\ Head(line) \in Whitespace THEN LStrip(Tail(line)) ELSE line

RECURSIVE RStrip(_)
RStrip(line) ==
    IF line # <<>> /\ line[Len(line)] \in Whitespace
    THEN RStrip(SubSeq(line, 1, Len(line) - 1))
    ELSE line

\* str.strip()
Strip(line) == RStrip(LStrip(line))

\* What the user may type at the first and at the second prompt.
Answers1 ==
    {yes,
     <<"Y", "E", "S">>,
     <<" ", "Y", "e", "s", "\t">>,
     <<"y">>,
     <<"y", " ", "e", "s">>,
     <<"n", "o">>,
     <<>>}

Answers2 ==
    {DELETE_ALL_DATA,
     <<" ">> \o DELETE_ALL_DATA \o <<" ", "\t">>,
     Lower(DELETE_ALL_DATA),
     <<"D", "E", "L", "E", "T", "E", " ", "A", "L", "L">>,
     <<"D", "E", "L", "E", "T", "E", "A", "L", "L", "D", "A", "T", "A">>,
     yes,
     <<>>}

\* confirm1 = input(...).strip().lower(); if confirm1 != 'yes': cancel
Confirmed1(line) == Lower(Strip(line)) = yes

\* a second prompt that takes every answer as consent
Confirmed2_Any(line) == TRUE

\* confirm2 = input(...).strip(); if confirm2 != 'DELETE ALL DATA': cancel
Confirmed2(line) == Strip(line) = DELETE_ALL_DATA

\* QueryLanguage
Languages == {"sparql", "gremlin", "opencypher"}

\* The method execute_query calls on its client for each language.
MethodOf(lang) ==
    CASE lang = "sparql"     -> "execute_sparql"
      [] lang = "gremlin"    -> "execute_gremlin"
      [] lang = "opencypher" -> "execute_opencypher"

\* The methods NeptuneClient defines.
ClientMethods ==
    {"init", "close", "execute_sparql", "reset_database",
     "get_connection_info", "test_connection"}

\* NeptuneQueryShell() before run(): nothing connected.
ShellStart ==
    [pc               |-> "start",
     current_language |-> "sparql",
     commands         |-> 0,        \* main-menu choices read so far
     confirm1         |-> None,     \* the lines typed in the last /reset
     confirm2         |-> None,
     last             |-> "none"]   \* the last message printed

SvcStart ==
    [pc       |-> "idle",
     lang     |-> None,
     method   |-> None,      \* the client method execute_query looked up
     entered  |-> None,      \* the manager operation it reached
     success  |-> None,
     error    |-> None,
     stored   |-> "empty"]   \* _last_complete_results

InitApp ==
    /\ shell = ShellStart
    /\ svc = SvcStart
    /\ sig = SigOff
    /\ resp = RespOff
    /\ test = TestOff
    /\ borrowed = FALSE
    /\ cm = NewManager(NoSession)
    /\ heap = [s \in SessionIds |-> "absent"]
    /\ initialized = FALSE
    /\ call = [c \in Calls |-> IdleCall]
    /\ ev = "new"
    /\ init_result = "none"

\* run(): validate_connection builds the client, init() and the test query
\* succeed, the language is selected and the main loop begins; or the
\* connection cannot be validated and run() returns.
ShellConnected(ok, lang) ==
    /\ shell.pc = "start"
    /\ IF ok
       THEN LET a == InitSparqlOp(cm, heap, "none", "ok")
            IN  /\ cm' = a.cm
                /\ heap' = a.heap
                /\ initialized' = TRUE
                /\ shell' = [shell EXCEPT !.pc = "main", !.current_language = lang]
       ELSE /\ lang = "sparql"
            /\ shell' = [shell EXCEPT !.pc = "exited"]
            /\ UNCHANGED <<cm, heap, initialized>>
    /\ ev' = "shell_connected"
    /\ init_result' = "none"
    /\ UNCHANGED <<borrowed, call, svc, sig, resp, test>>

\* Main loop, choice '/reset': database_reset() up to its first prompt.
ShellReset ==
    /\ shell.pc = "main"
    /\ shell.commands < MaxCommands
    /\ shell' = [shell EXCEPT !.pc = "prompt1", !.commands = @ + 1,
                              !.confirm1 = None, !.confirm2 = None]
    /\ ev' = "shell_reset"
    /\ init_result' = "none"
    /\ UNCHANGED <<cm, heap, borrowed, initialized, call, svc, sig, resp, test>>

\* The user answers "Type 'yes' to continue: ".
ShellConfirm1(line) ==
    /\ shell.pc = "prompt1"
    /\ shell' = [shell EXCEPT
                    !.confirm1 = line,
                    !.pc   = IF Confirmed1(line) THEN "prompt2" ELSE "main",
                    !.last = IF Confirmed1(line) THEN @ ELSE "cancelled"]
    /\ ev' = "shell_confirm1"
    /\ init_result' = "none"
    /\ UNCHANGED <<cm, heap, borrowed, initialized, call, svc, sig, resp, test>>

\* The user answers "Type 'DELETE ALL DATA' to confirm: "; on consent
\* neptune_client.reset_database() is called and runs to its first post.
ShellConfirm2(line) ==
    /\ shell.pc = "prompt2"
    /\ IF Confirmed2(line)
       THEN /\ shell' = [shell EXCEPT !.confirm2 = line, !.pc = "resetting"]
            /\ ClientResetDatabaseOp("c1")
       ELSE /\ shell' = [shell EXCEPT !.confirm2 = line, !.pc = "main",
                                      !.last = "cancelled_incorrect"]
            /\ ev' = "shell_confirm2"
            /\ init_result' = "none"
            /\ UNCHANGED <<cm, heap, borrowed, initialized, call>>
    /\ UNCHANGED <<svc, sig, resp, test>>

\* reset_database() returned or raised: the shell reports it and, on a
\* truthy result, clears the stored results.
ShellResetDone ==
    /\ shell.pc = "resetting"
    /\ call["c1"].pc = "done"
    /\ LET cl == call["c1"]
           result == cl.returned /\ cl.value = "True"
       IN  /\ shell' = [shell EXCEPT
                           !.pc = "main",
                           !.last = IF ~cl.returned THEN "reset_raised"
                                    ELSE IF result THEN "reset_completed"
                                    ELSE "reset_failed"]
           /\ svc' = IF result THEN [svc EXCEPT !.stored = "empty"] ELSE svc
    /\ call' = [call EXCEPT !["c1"] = IdleCall]
    /\ ev' = "shell_reset_done"
    /\ init_result' = "none"
    /\ UNCHANGED <<cm, heap, borrowed, initialized, sig, resp, test>>

\* Main loop, choice '3': select_query_language()
ShellLanguage(lang) ==
    /\ shell.pc = "main"
    /\ shell.commands < MaxCommands
    /\ shell' = [shell EXCEPT !.current_language = lang, !.commands = @ + 1]
    /\ ev' = "shell_language"
    /\ init_result' = "none"
    /\ UNCHANGED <<cm, heap, borrowed, initialized, call, svc, sig, resp, test>>

\* Main loop, choice '1': the typed query goes to
\* QueryExecutionService.execute_query(query, current_language), which
\* looks up the client method of the language and calls it; a method the
\* client does not have is an AttributeError, caught by execute_query.
ShellQuery(query) ==
    /\ shell.pc = "main"
    /\ shell.commands < MaxCommands
    /\ LET lang   == shell.current_language
           method == MethodOf(lang)
       IN  IF method \in ClientMethods
           THEN /\ shell' = [shell EXCEPT !.pc = "querying", !.commands = @ + 1]
                /\ svc' = [svc EXCEPT !.pc = "running", !.lang = lang,
                                      !.method = method, !.entered = "sparql",
                                      !.success = None, !.error = None]
                /\ ClientExecuteSparqlOp("c1", query)
           ELSE /\ shell' = [shell EXCEPT !.commands = @ + 1, !.last = "no_results"]
                /\ svc' = [svc EXCEPT !.pc = "done", !.lang = lang,
                                      !.method = method, !.entered = None,
                                      !.success = FALSE, !.error = "AttributeError",
                                      !.stored = "empty"]
                /\ ev' = "shell_query"
                /\ init_result' = "none"
                /\ UNCHANGED <<cm, heap, borrowed, initialized, call>>
    /\ UNCHANGED <<sig, resp, test>>

\* The client call of execute_query returned or raised: the service stores
\* the results or the error, the shell prints them.
SvcDone ==
    /\ shell.pc = "querying"
    /\ svc.pc = "running"
    /\ call["c1"].pc = "done"
    /\ LET cl == call["c1"]
       IN  /\ svc' = [svc EXCEPT
                         !.pc = "done",
                         !.success = cl.returned,
                         !.error = IF cl.returned THEN None ELSE cl.raised.exc,
                         !.stored = IF cl.returned THEN "results" ELSE "empty"]
           /\ shell' = [shell EXCEPT
                           !.pc = "main",
                           !.last = IF cl.returned THEN "results" ELSE "no_results"]
    /\ call' = [call EXCEPT !["c1"] = IdleCall]
    /\ ev' = "svc_done"
    /\ init_result' = "none"
    /\ UNCHANGED <<cm, heap, borrowed, initialized, sig, resp, test>>

\* Main loop, choice '4': the loop ends and cleanup() closes the client.
ShellExit ==
    /\ shell.pc = "main"
    /\ LET c == ClientCloseOp(initialized, cm, heap)
       IN  cm' = c.cm /\ heap' = c.heap /\ initialized' = c.initialized
    /\ shell' = [shell EXCEPT !.pc = "exited"]
    /\ ev' = "shell_exit"
    /\ init_result' = "none"
    /\ UNCHANGED <<borrowed, call, svc, sig, resp, test>>

NextApp ==
    \/ \E ok \in BOOLEAN, lang \in Languages : ShellConnected(ok, lang)
    \/ ShellReset
    \/ \E line \in Answers1 : ShellConfirm1(line)
    \/ \E line \in Answers2 : ShellConfirm2(line)
    \/ \E o \in Outcomes, payload \in InitiatePayloads \cup Statuses \cup {"none"} :
          RespondReset("c1", o, payload, "skip", "ok")
    \/ ShellResetDone
    \/ \E lang \in Languages : ShellLanguage(lang)
    \/ \E query \in Queries : ShellQuery(query)
    \/ \E o \in Outcomes : Respond("c1", o)
    \/ Wake("c1")
    \/ SvcDone
    \/ ShellExit

SpecApp == InitApp /\ [][NextApp]_vars

TypeOK ==
    /\ cm.client_session \in {NoSession} \cup SessionIds
    /\ cm.owns_session \in BOOLEAN
    /\ cm.sparql_endpoint \in {None, "url"}
    /\ cm.credentials \in {"unset", "None", "ok"}
    /\ heap \in [SessionIds -> SessionStates]
    /\ \A c \in Calls : call[c].pc \in {"idle", "inflight", "sleeping", "done"}

\* ------------------------------------------------- request body and headers
\* Texts, as sequences of characters.
W_select == <<"s", "e", "l", "e", "c", "t">>
W_Insert == <<"I", "n", "s", "e", "r", "t">>
W_DELETE == <<"D", "E", "L", "E", "T", "E">>
W_clear == <<"c", "l", "e", "a", "r">>
W_Create == <<"C", "r", "e", "a", "t", "e">>
W_drop == <<"d", "r", "o", "p">>
W_LOAD == <<"L", "O", "A", "D">>
W_created == <<"?", "c", "r", "e", "a", "t", "e", "d">>
W_placeholder == <<"$", "p">>
W_quoted == <<"a", "\"", "b">>
W_true == <<"t", "r", "u", "e">>
W_false == <<"f", "a", "l", "s", "e">>
K_INSERT == <<"I", "N", "S", "E", "R", "T">>
K_DELETE == <<"D", "E", "L", "E", "T", "E">>
K_CLEAR == <<"C", "L", "E", "A", "R">>
K_CREATE == <<"C", "R", "E", "A", "T", "E">>
K_DROP == <<"D", "R", "O", "P">>
K_LOAD == <<"L", "O", "A", "D">>

\* How many words a query text has.
MaxSignWords == 2

\* str.upper() on one character
UpperChar(ch) ==
    IF \E i \in 1..Len(LowerChars) : LowerChars[i] = ch
    THEN UpperChars[CHOOSE i \in 1..Len(LowerChars) : LowerChars[i] = ch]
    ELSE ch

\* str.upper()
UpperText(text) == [i \in 1..Len(text) |-> UpperChar(text[i])]

\* old in text
Contains(text, old) ==
    \E i \in 1..(Len(text) - Len(old) + 1) : SubSeq(text, i, i + Len(old) - 1) = old

\* text.replace(old, new)
RECURSIVE Replace(_, _, _)
Replace(text, old, new) ==
    IF Len(text) < Len(old) THEN text
    ELSE IF SubSeq(text, 1, Len(old)) = old
    THEN new \o Replace(SubSeq(text, Len(old) + 1, Len(text)), old, new)
    ELSE <<Head(text)>> \o Replace(Tail(text), old, new)

\* The words query texts are made of: keywords in several casings, a
\* variable whose name contains a keyword, and the placeholder $p.
SignWords ==
    {W_select, W_Insert, W_DELETE, W_clear, W_Create, W_drop, W_LOAD,
     W_created, W_placeholder}

RECURSIVE JoinWords(_)
JoinWords(words) ==
    IF Len(words) = 0 THEN <<>>
    ELSE IF Len(words) = 1 THEN words[1]
    ELSE words[1] \o <<" ">> \o JoinWords(Tail(words))

SignQueries ==
    {JoinWords(ws) : ws \in UNION {[1..n -> SignWords] : n \in 1..MaxSignWords}}

\* The params argument: None, or {"p": v} with v a string, None, a number,
\* a boolean or a list.
NoParams == [type |-> "absent"]

ParamValues ==
    {[type |-> "str",  v |-> W_drop],
     [type |-> "str",  v |-> W_quoted],
     [type |-> "none"],
     [type |-> "int",  v |-> <<"5">>],
     [type |-> "bool", v |-> TRUE],
     [type |-> "list", v |-> <<[type |-> "str", v |-> W_LOAD],
                               [type |-> "int", v |-> <<"5">>]>>]}

Quote == <<"\"">>

\* v.replace('"', '\\"') wrapped in double quotes
QuotedString(chars) == Quote \o Replace(chars, Quote, <<"\\", "\"">>) \o Quote

\* An item of a list value.
FormatItem(item) ==
    IF item.type = "str" THEN QuotedString(item.v) ELSE item.v

RECURSIVE JoinItems(_)
JoinItems(items) ==
    IF Len(items) = 0 THEN <<>>
    ELSE IF Len(items) = 1 THEN FormatItem(items[1])
    ELSE FormatItem(items[1]) \o <<",", " ">> \o JoinItems(Tail(items))

\* formatted_value
FormatValue(value) ==
    CASE value.type = "none" -> QuotedString(<<>>)
      [] value.type = "str"  -> QuotedString(value.v)
      [] value.type = "bool" -> IF value.v THEN W_true ELSE W_false
      [] value.type = "int"  -> value.v
      [] value.type = "list" -> <<"(">> \o JoinItems(value.v) \o <<")">>

\* formatted_query: every "$p" replaced by the formatted value
FormattedQuery(query, params) ==
    IF params = NoParams THEN query
    ELSE Replace(query, W_placeholder, FormatValue(params))

\* a keyword list without CLEAR
UpdateKeywords_NoClear == {K_INSERT, K_DELETE, K_CREATE, K_DROP, K_LOAD}

\* a keyword list without LOAD
UpdateKeywords_NoLoad == {K_INSERT, K_DELETE, K_CLEAR, K_CREATE, K_DROP}

\* for keyword in ["INSERT", "DELETE", "CLEAR", "CREATE", "DROP", "LOAD"]
UpdateKeywords == {K_INSERT, K_DELETE, K_CLEAR, K_CREATE, K_DROP, K_LOAD}

\* The Content-Type header each operation signs and sends.
ContentType(kind, body) ==
    IF kind = "sparql"
    THEN IF \E keyword \in UpdateKeywords : Contains(UpperText(body), keyword)
         THEN "application/sparql-update"
         ELSE "application/sparql-query"
    ELSE "application/json"

\* for keyword in ["DELETE", "CLEAR"]
LongRunningKeywords == {K_DELETE, K_CLEAR}

\* base_timeout of the request an operation sends for the text it built.
RequestBaseTimeout(kind, formatted_query) ==
    CASE kind = "sparql" ->
            IF \E keyword \in LongRunningKeywords :
                    Contains(UpperText(formatted_query), keyword)
            THEN base_timeout_delete
            ELSE base_timeout_default
      [] kind \in ResetKinds -> TimeoutSeconds(kind, formatted_query, 0)
      [] OTHER -> base_timeout_default

\* The operations that sign a request.
SignKinds == QueryKinds \cup ResetKinds

\* The body and headers an operation builds before it signs: the
\* substituted text for SPARQL, a JSON document for the others.  One
\* operation is followed from its arguments to its signed request.
SignRequest(kind, query, params) ==
    /\ sig.pc = "off"
    /\ params = NoParams \/ kind \in {"sparql", "opencypher"}
    /\ query = <<>> <=> kind \in ResetKinds
    /\ LET body == IF kind = "sparql" THEN FormattedQuery(query, params) ELSE query
       IN  sig' = [pc           |-> "signed",
                   kind         |-> kind,
                   query        |-> query,
                   params       |-> params,
                   body         |-> body,
                   json         |-> kind # "sparql",
                   content_type |-> ContentType(kind, body),
                   base_timeout |-> RequestBaseTimeout(kind, body)]
    /\ UNCHANGED <<cm, heap, borrowed, initialized, call, ev, init_result, shell, svc, resp, test>>

InitSign ==
    /\ Init
    /\ ~borrowed

NextSign ==
    \E kind \in SignKinds, query \in SignQueries \cup {<<>>},
       params \in ParamValues \cup {NoParams} :
        SignRequest(kind, query, params)

SpecSign == InitSign /\ [][NextSign]_vars

\* ------------------------------------------------------- response handling
\* How many bindings a SPARQL result has, and how many elements a Gremlin
\* result has.
MaxRows == 2

\* JSON values as Python holds them after response.json(): the pair of the
\* value's Python type and its content.  Strings are atoms: none of the strings used below
\* contains another of them.
JNull == <<"null", "null">>
JStr(str) == <<"str", str>>
JInt(n) == <<"int", n>>
JBool(b) == <<"bool", b>>
JList(items) == <<"list", items>>
JObj(members) == <<"dict", members>>
NoMembers == [key \in {} |-> JNull]

\* What an expression evaluates to: a value, or the exception it raised.
Ok(value) == [exc |-> None, val |-> value]
Err(exc) == [exc |-> exc, val |-> JNull]

\* key in x
PyIn(key, x) ==
    CASE x[1] = "dict" -> IF key \in DOMAIN x[2] THEN "True" ELSE "False"
      [] x[1] = "list" -> IF \E i \in 1..Len(x[2]) : x[2][i] = JStr(key)
                         THEN "True" ELSE "False"
      [] x[1] = "str"  -> IF x[2] = key THEN "True" ELSE "False"
      [] OTHER        -> "TypeError"

\* x[key] for a string key
PyItem(x, key) ==
    IF x[1] = "dict"
    THEN IF key \in DOMAIN x[2] THEN Ok(x[2][key]) ELSE Err("KeyError")
    ELSE Err("TypeError")

\* x.get(key, default)
PyGet(x, key, default) ==
    IF x[1] = "dict"
    THEN Ok(IF key \in DOMAIN x[2] THEN x[2][key] ELSE default)
    ELSE Err("AttributeError")

\* The order in which the keys of the documents used below were inserted.
DocumentKeys == <<"@type", "@value", "s", "count">>

\* What `for item in x` goes through, as a sequence: the elements of a
\* list, the keys of a dict in insertion order, the characters of a string
\* (the strings iterated below have one character or none); nothing else
\* can be iterated.
PyIter(x) ==
    CASE x[1] = "list" -> Ok(x[2])
      [] x[1] = "dict" ->
            LET keys == SelectSeq(DocumentKeys, LAMBDA key : key \in DOMAIN x[2])
            IN  Ok([i \in 1..Len(keys) |-> JStr(keys[i])])
      [] x[1] = "str"  -> Ok(IF x[2] = "" THEN <<>> ELSE <<x>>)
      [] OTHER        -> Err("TypeError")

\* a row that keeps the whole entry of each variable
SparqlRow_Entry(binding) == JObj([var \in DOMAIN binding[2] |-> binding[2][var]])

\* row[var_name] = value.get("value")
SparqlRow(binding) ==
    JObj([var \in DOMAIN binding[2] |-> PyGet(binding[2][var], "value", JNull).val])

\* binding.items() and value.get(...) work: the binding is an object and
\* so is every entry of it.
RowConvertible(binding) ==
    /\ binding[1] = "dict"
    /\ \A var \in DOMAIN binding[2] : binding[2][var][1] = "dict"

\* The loop over result["results"]["bindings"].
SparqlRows(bindings) ==
    LET items == PyIter(bindings)
    IN  IF items.exc # None THEN items
        ELSE IF \A i \in 1..Len(items.val) : RowConvertible(items.val[i])
        THEN Ok(JList([i \in 1..Len(items.val) |-> SparqlRow(items.val[i])]))
        ELSE Err("AttributeError")

\* an ASK branch that returns the boolean without a row around it
AskResult_Bare(result) == Ok(JObj([results |-> result[2].boolean]))

\* return {"results": [{"boolean": result["boolean"]}]}
AskResult(result) ==
    IF result[1] = "dict"
    THEN Ok(JObj([results |-> JList(<<JObj([boolean |-> result[2].boolean])>>)]))
    ELSE Err("TypeError")

\* The transformation of a parsed SPARQL response.
TransformSparql(result) ==
    LET hasResults == PyIn("results", result)
    IN  IF hasResults = "TypeError" THEN Err("TypeError")
        ELSE LET inner == IF hasResults = "True" THEN PyItem(result, "results")
                          ELSE Ok(JNull)
                 hasBindings == IF hasResults = "True" /\ inner.exc = None
                                THEN PyIn("bindings", inner.val) ELSE "False"
             IN  IF inner.exc # None THEN Err(inner.exc)
                 ELSE IF hasBindings = "TypeError" THEN Err("TypeError")
                 ELSE IF hasBindings = "True"
                 THEN LET bindings == PyItem(inner.val, "bindings")
                      IN  IF bindings.exc # None THEN Err(bindings.exc)
                          ELSE LET rows == SparqlRows(bindings.val)
                               IN  IF rows.exc # None THEN rows
                                   ELSE Ok(JObj([results |-> rows.val]))
                 ELSE IF PyIn("boolean", result) = "True" THEN AskResult(result)
                 ELSE Ok(result)

\* Content-Type headers, as sequences of characters.
CT_absent == <<>>
CT_text == <<"t", "e", "x", "t", "/", "p", "l", "a", "i", "n">>
CT_sparql_json == <<"a", "p", "p", "l", "i", "c", "a", "t", "i", "o", "n", "/", "s", "p", "a", "r", "q", "l", "-", "r", "e", "s", "u", "l", "t", "s", "+", "j", "s", "o", "n">>
CT_JSON == <<"A", "p", "p", "l", "i", "c", "a", "t", "i", "o", "n", "/", "J", "S", "O", "N">>
W_json == <<"j", "s", "o", "n">>

W_application == <<"a", "p", "p", "l", "i", "c", "a", "t", "i", "o", "n", "/">>
W_plus_json == <<"+", "j", "s", "o", "n">>

ContentTypes == {CT_absent, CT_text, CT_sparql_json, CT_JSON}

\* response.raise_for_status()
RaisesForStatus(status) == status >= 400

HttpStatuses == {200, 204, 400, 500}

\* a test that looks for json in the body instead of the header
IsJsonResponse_ByBody(response) == response.body.kind = "json"

\* not (not content_type or "json" not in content_type.lower())
IsJsonResponse(response) ==
    response.content_type # <<>> /\ Contains(Lower(response.content_type), W_json)

\* The content types response.json() accepts: application/json and
\* application/<anything>+json, in any letter case.
AcceptsAsJson(content_type) ==
    LET ctype == Lower(content_type)
    IN  /\ Len(ctype) >= Len(W_application)
        /\ SubSeq(ctype, 1, Len(W_application)) = W_application
        /\ \/ Contains(ctype, W_application \o W_json)
           \/ Contains(ctype, W_plus_json)

\* await response.json(): a content type error when the header does not
\* announce JSON, else the parsed document, None for an empty body, a
\* decoding error for anything else.
ParseJson(response) ==
    IF ~AcceptsAsJson(response.content_type) THEN Err("ContentTypeError")
    ELSE CASE response.body.kind = "json"  -> Ok(response.body.doc)
           [] response.body.kind = "empty" -> Ok(JNull)
           [] response.body.kind = "text"  -> Err("JSONDecodeError")

\* await response.text()
TextOf(body) == IF body.kind = "text" THEN body.doc ELSE JStr("")

\* execute_sparql from the arrival of a response to its return or raise.
HandleSparql(response) ==
    IF RaisesForStatus(response.status) THEN Err("ClientResponseError")
    ELSE IF ~IsJsonResponse(response)
    THEN IF response.status = 200
         THEN Ok(JObj([status |-> JStr("success"), code |-> JInt(200)]))
         ELSE Ok(JObj([status |-> JStr("error"), code |-> JInt(response.status),
                       message |-> TextOf(response.body)]))
    ELSE LET parsed == ParseJson(response)
         IN  IF parsed.exc # None THEN parsed ELSE TransformSparql(parsed.val)

\* The bindings SPARQL responses are made of: well-formed ones, one whose
\* entry carries no value, one whose entry is not an object, and one that
\* is not an object itself.
EntryUri == JObj([type |-> JStr("uri"), value |-> JStr("a")])
EntryLiteral ==
    JObj([type |-> JStr("literal"), value |-> JStr("5"), datatype |-> JStr("xsd:int")])
EntryNoValue == JObj([type |-> JStr("bnode")])

GoodBindings ==
    {JObj([s |-> EntryUri]),
     JObj([s |-> EntryUri, o |-> EntryLiteral]),
     JObj(NoMembers)}

BadBindings ==
    {JObj([s |-> EntryNoValue]),
     JObj([s |-> JStr("a")]),
     JStr("a")}

BindingLists ==
    UNION {[1..n -> GoodBindings \cup BadBindings] : n \in 0..MaxRows}

VarsHead == JObj([vars |-> JList(<<JStr("s"), JStr("o")>>)])

\* The JSON documents a SPARQL endpoint may answer with.
SparqlDocuments ==
    {JObj([head |-> VarsHead, results |-> JObj([bindings |-> JList(rows)])]) :
        rows \in BindingLists}
    \cup {JObj([head |-> VarsHead, boolean |-> JBool(b)]) : b \in BOOLEAN}
    \cup {JObj([boolean |-> JBool(TRUE), results |-> JObj([bindings |-> JList(<<>>)])]),
          JObj([results |-> JObj(NoMembers)]),
          JObj([results |-> JNull]),
          JObj([results |-> JObj([bindings |-> JNull])]),
          JObj([results |-> JObj([bindings |-> JObj([s |-> EntryUri])])]),
          JObj([message |-> JStr("x")]),
          JList(<<>>),
          JNull}

Bodies ==
    {[kind |-> "json", doc |-> doc] : doc \in SparqlDocuments}
    \cup {[kind |-> "empty", doc |-> JNull], [kind |-> "text", doc |-> JStr("x")]}

Responses ==
    [status : HttpStatuses, content_type : ContentTypes, body : Bodies]

\* What QueryExecutionService.execute_query makes of a returned result:
\* the rows it stores and the status and code it reports.
ServiceView(result) ==
    IF result[1] # "dict" THEN Err("AttributeError")
    ELSE Ok([rows   |-> PyGet(result, "results", JList(<<>>)).val,
             status |-> PyGet(result, "status", JStr("success")).val,
             code   |-> PyGet(result, "code", JInt(200)).val])

\* ---------------------------------------------------------- Gremlin results
\* What a vertex property contributes: for a non-empty list its first
\* element, unwrapped when that element is an object with "@value"; any
\* other value as it is.
FirstValue(prop_values) ==
    IF prop_values[1] = "list" /\ Len(prop_values[2]) > 0
    THEN LET prop_value == prop_values[2][1]
         IN  IF prop_value[1] = "dict" /\ "@value" \in DOMAIN prop_value[2]
             THEN PyItem(prop_value[2]["@value"], "value")
             ELSE Ok(prop_value)
    ELSE Ok(prop_values)

\* The g:Vertex branch, up to its return or the exception it raises.
FlattenVertex(vertex_data) ==
    IF vertex_data[1] # "dict" THEN Err("AttributeError")
    ELSE LET fixed == [id    |-> PyGet(vertex_data, "id", JNull).val,
                       label |-> PyGet(vertex_data, "label", JNull).val,
                       type  |-> JStr("vertex")]
         IN  IF "properties" \notin DOMAIN vertex_data[2] THEN Ok(JObj(fixed))
             ELSE LET props == vertex_data[2].properties
                  IN  IF props[1] # "dict" THEN Err("AttributeError")
                      ELSE LET raised == {FirstValue(props[2][name]).exc :
                                              name \in DOMAIN props[2]} \ {None}
                           IN  IF raised # {} THEN Err(CHOOSE exc \in raised : TRUE)
                               ELSE Ok(JObj([name \in DOMAIN props[2] |->
                                                FirstValue(props[2][name]).val]
                                            @@ fixed))

\* an edge record without its end points
FlattenEdge_NoEnds(edge_data) ==
    IF edge_data[1] # "dict" THEN Err("AttributeError")
    ELSE Ok(JObj([id    |-> PyGet(edge_data, "id", JNull).val,
                  label |-> PyGet(edge_data, "label", JNull).val,
                  type  |-> JStr("edge")]))

\* The g:Edge branch, up to its return or the exception it raises.
FlattenEdge(edge_data) ==
    IF edge_data[1] # "dict" THEN Err("AttributeError")
    ELSE LET fixed == [id    |-> PyGet(edge_data, "id", JNull).val,
                       label |-> PyGet(edge_data, "label", JNull).val,
                       type  |-> JStr("edge"),
                       inV   |-> PyGet(edge_data, "inV", JNull).val,
                       outV  |-> PyGet(edge_data, "outV", JNull).val]
         IN  IF "properties" \notin DOMAIN edge_data[2] THEN Ok(JObj(fixed))
             ELSE LET props == edge_data[2].properties
                  IN  IF props[1] # "dict" THEN Err("AttributeError")
                      ELSE Ok(JObj(props[2] @@ fixed))

\* The try block of _transform_graphson_item.
FlattenItem(item) ==
    LET tag == PyGet(item, "@type", JNull).val
    IN  CASE tag = JStr("g:Vertex") -> FlattenVertex(item[2]["@value"])
          [] tag = JStr("g:Edge")   -> FlattenEdge(item[2]["@value"])
          [] OTHER -> Ok(JObj([value |-> PyGet(item, "@value", item).val]))

\* _transform_graphson_item: what the try block returned, or the item
\* under "value" when it raised.
TransformGraphsonItem(item) ==
    LET flat == FlattenItem(item)
    IN  IF flat.exc # None THEN JObj([value |-> item]) ELSE flat.val

IsTagged(item) ==
    item[1] = "dict" /\ "@type" \in DOMAIN item[2] /\ "@value" \in DOMAIN item[2]

\* The body of the loop over data_results.
TransformItem(item) ==
    IF item[1] = "dict"
    THEN IF IsTagged(item) THEN TransformGraphsonItem(item) ELSE item
    ELSE JObj([value |-> item])

\* a normalisation that takes a scalar for an empty result
DataResults_NoScalar(raw_results) ==
    IF raw_results[1] = "dict" /\ "data" \in DOMAIN raw_results[2]
    THEN PyIter(raw_results[2].data)
    ELSE IF raw_results[1] = "list" THEN Ok(raw_results[2])
    ELSE Ok(<<>>)

\* The elements the loop goes through for the value under "result".
DataResults(raw_results) ==
    IF raw_results[1] = "dict" /\ "data" \in DOMAIN raw_results[2]
    THEN PyIter(raw_results[2].data)
    ELSE IF raw_results[1] = "list" THEN Ok(raw_results[2])
    ELSE IF raw_results = JNull THEN Ok(<<>>)
    ELSE Ok(<<raw_results>>)

\* a fallback that returns no row
WrapRaw_Dropped(gremlin_result) == JObj([results |-> JList(<<>>)])

\* {"results": [gremlin_result]}
WrapRaw(gremlin_result) == JObj([results |-> JList(<<gremlin_result>>)])

\* _transform_gremlin_results
TransformGremlin(gremlin_result) ==
    LET hasResult == PyIn("result", gremlin_result)
        raw == IF hasResult = "True" THEN PyItem(gremlin_result, "result")
               ELSE Err("TypeError")
        data == IF raw.exc = None THEN DataResults(raw.val) ELSE raw
    IN  IF hasResult = "False" THEN WrapRaw(gremlin_result)
        ELSE IF data.exc # None THEN WrapRaw(gremlin_result)
        ELSE JObj([results |->
                     JList([i \in 1..Len(data.val) |-> TransformItem(data.val[i])])])

\* execute_gremlin from the arrival of a response to its return or raise.
HandleGremlin(response) ==
    IF RaisesForStatus(response.status) THEN Err("ClientResponseError")
    ELSE LET parsed == ParseJson(response)
         IN  IF parsed.exc # None THEN parsed ELSE Ok(TransformGremlin(parsed.val))

\* execute_opencypher from the arrival of a response to its return or
\* raise: the parsed document is returned as it is.
HandleOpenCypher(response) ==
    IF RaisesForStatus(response.status) THEN Err("ClientResponseError")
    ELSE ParseJson(response)

\* The elements Gremlin results are made of.
VertexProperty(value) ==
    JObj(("@type" :> JStr("g:VertexProperty"))
         @@ ("@value" :> JObj([id |-> JInt(1), value |-> value, label |-> JStr("name")])))

Tagged(tag, value) == JObj(("@type" :> JStr(tag)) @@ ("@value" :> value))

Vertex(properties) ==
    Tagged("g:Vertex",
           JObj([id |-> JStr("v1"), label |-> JStr("person"), properties |-> properties]))

Edge(properties) ==
    Tagged("g:Edge",
           JObj([id |-> JStr("e1"), label |-> JStr("knows"), inV |-> JStr("v2"),
                 outV |-> JStr("v1"), properties |-> properties]))

Alice == JStr("Alice")
PlainAlice == JObj([value |-> Alice])

Vertices ==
    {Vertex(JObj([name |-> JList(<<VertexProperty(Alice)>>)])),
     Vertex(JObj([name |-> JList(<<VertexProperty(Alice), VertexProperty(JStr("Bob"))>>),
                  age  |-> JList(<<VertexProperty(JInt(30))>>)])),
     Vertex(JObj([name |-> JList(<<PlainAlice>>)])),
     Vertex(JObj([name |-> Alice])),
     Vertex(JObj([name |-> JList(<<>>)])),
     Vertex(JObj([type |-> JList(<<VertexProperty(Alice)>>)])),
     Vertex(JObj(NoMembers)),
     Tagged("g:Vertex", JObj([id |-> JStr("v1"), label |-> JStr("person")])),
     Tagged("g:Vertex", JObj([label |-> JStr("person")]))}

MalformedVertices ==
    {Tagged("g:Vertex", JStr("v1")),
     Vertex(JList(<<>>)),
     Vertex(JObj([name |-> JList(<<Tagged("g:VertexProperty", Alice)>>)])),
     Vertex(JObj([name |-> JList(<<Tagged("g:VertexProperty", JObj([id |-> JInt(1)]))>>)]))}

Since == Tagged("g:Property", JObj([key |-> JStr("since"), value |-> JInt(2020)]))

Edges ==
    {Edge(JObj([since |-> Since])),
     Edge(JObj([label |-> JStr("x")])),
     Edge(JObj(NoMembers)),
     Tagged("g:Edge", JObj([id |-> JStr("e1"), label |-> JStr("knows"),
                            inV |-> JStr("v2"), outV |-> JStr("v1")])),
     Tagged("g:Edge", JObj([id |-> JStr("e1")]))}

MalformedEdges == {Tagged("g:Edge", JNull), Edge(JInt(0))}

OtherTagged == {Tagged("g:Int64", JInt(5)), Tagged("g:List", JList(<<Alice>>))}

PlainObjects ==
    {JObj([name |-> Alice]), JObj("@type" :> JStr("g:Int64")), JObj(NoMembers)}

Scalars == {Alice, JInt(5), JBool(TRUE), JNull}

GremlinItems ==
    Vertices \cup MalformedVertices \cup Edges \cup MalformedEdges
    \cup OtherTagged \cup PlainObjects \cup Scalars \cup {JList(<<Alice>>)}

\* The elements longer results are made of: one of each sort.
SomeItems ==
    {Vertex(JObj([name |-> JList(<<VertexProperty(Alice)>>)])),
     Vertex(JObj([name |-> JList(<<PlainAlice>>)])),
     Tagged("g:Vertex", JStr("v1")),
     Edge(JObj([since |-> Since])),
     Tagged("g:Edge", JNull),
     Tagged("g:Int64", JInt(5)),
     JObj([name |-> Alice]),
     Alice,
     JNull,
     JList(<<Alice>>)}

ItemLists ==
    {<<item>> : item \in GremlinItems}
    \cup UNION {[1..n -> SomeItems] : n \in 0..MaxRows}

\* The JSON documents a Gremlin endpoint may answer with.
GremlinDocuments ==
    {JObj([requestId |-> JStr("r"), result |-> JObj([data |-> JList(items)])]) :
        items \in ItemLists}
    \cup {JObj([result |-> JList(items)]) : items \in ItemLists}
    \cup {JObj([result |-> item]) : item \in GremlinItems}
    \cup {JObj([result |-> JObj([data |-> data])]) :
            data \in {Tagged("g:List", JList(<<Alice>>)), JInt(5), JNull, JStr("")}}
    \cup {JObj([requestId |-> JStr("r")]), JList(<<JStr("result")>>), JList(<<>>),
          JStr("result"), JNull}

\* The responses of a Gremlin endpoint: every document under status 200,
\* and the other statuses, content types and bodies with one document.
GremlinResponses ==
    [status : {200}, content_type : {CT_JSON},
     body : {[kind |-> "json", doc |-> doc] : doc \in GremlinDocuments}]
    \cup [status : HttpStatuses, content_type : {CT_text, CT_JSON},
          body : {[kind |-> "json", doc |-> JObj([result |-> JList(<<Alice>>)])],
                  [kind |-> "empty", doc |-> JNull],
                  [kind |-> "text", doc |-> JStr("x")]}]

\* The JSON documents an openCypher endpoint may answer with.
CypherDocuments ==
    {JObj([results |-> JList(rows)]) :
        rows \in UNION {[1..n -> PlainObjects \cup {Alice}] : n \in 0..MaxRows}}
    \cup {JObj([code |-> JStr("x"), message |-> JStr("x")]), JList(<<>>), JNull}

CypherResponses ==
    [status : HttpStatuses, content_type : {CT_text, CT_JSON},
     body : {[kind |-> "json", doc |-> doc] : doc \in CypherDocuments}
            \cup {[kind |-> "empty", doc |-> JNull],
                  [kind |-> "text", doc |-> JStr("x")]}]

\* One response is followed from its arrival to what the caller gets.
Handled(protocol, response, out) ==
    [pc       |-> "handled",
     protocol |-> protocol,
     response |-> response,
     exc      |-> out.exc,
     result   |-> out.val,
     view     |-> IF out.exc = None THEN ServiceView(out.val) ELSE Err(out.exc)]

SparqlResponse(response) ==
    /\ resp.pc = "off"
    /\ resp' = Handled("sparql", response, HandleSparql(response))
    /\ UNCHANGED <<cm, heap, borrowed, initialized, call, ev, init_result, shell, svc, sig, test>>

GremlinResponse(response) ==
    /\ resp.pc = "off"
    /\ resp' = Handled("gremlin", response, HandleGremlin(response))
    /\ UNCHANGED <<cm, heap, borrowed, initialized, call, ev, init_result, shell, svc, sig, test>>

OpenCypherResponse(response) ==
    /\ resp.pc = "off"
    /\ resp' = Handled("opencypher", response, HandleOpenCypher(response))
    /\ UNCHANGED <<cm, heap, borrowed, initialized, call, ev, init_result, shell, svc, sig, test>>

InitResp ==
    /\ Init
    /\ ~borrowed

NextResp ==
    /\ resp.pc = "off"
    /\ \/ \E response \in Responses : SparqlResponse(response)
       \/ \E response \in GremlinResponses : GremlinResponse(response)
       \/ \E response \in CypherResponses : OpenCypherResponse(response)

SpecResp == InitResp /\ [][NextResp]_vars

\* ------------------------------------------------------------ test_connection
\* test_query = "ASK { ?s ?p ?o }"
test_query == <<"ask">>

\* a test that reports success for every result returned
TestValue_Always(result) == TRUE

\* return 'results' in result
TestValue(result) == PyIn("results", result) = "True"

\* What the endpoint may answer to the test query.
TestResponses ==
    [status : {200}, content_type : {CT_sparql_json},
     body : {[kind |-> "json", doc |-> doc] :
                doc \in {JObj([head |-> VarsHead, boolean |-> JBool(b)]) : b \in BOOLEAN}
                        \cup {JObj([head |-> VarsHead,
                                    results |-> JObj([bindings |-> JList(<<>>)])]),
                              JObj([results |-> JObj(NoMembers)]),
                              JObj([message |-> JStr("x")]),
                              JStr("x"),
                              JList(<<>>)}}]
    \cup [status : {200, 204}, content_type : {CT_absent, CT_text},
          body : {[kind |-> "empty", doc |-> JNull]}]

\* test_connection up to the return of init(): the client is initialized
\* when it was not.
TestConnectionInit(fail, got) ==
    /\ test.pc = "off"
    /\ call["c1"].pc = "idle"
    /\ IF ~initialized
       THEN ClientInitOp(fail, got)
       ELSE /\ ~borrowed
            /\ fail = "none" /\ got = "ok"
            /\ ev' = "test_connection"
            /\ init_result' = "none"
            /\ UNCHANGED <<cm, heap, borrowed, initialized, call>>
    /\ test' = [pc |-> "started"]
    /\ UNCHANGED <<shell, svc, sig, resp>>

\* result = await self.execute_sparql(test_query), up to its first
\* suspension.
TestConnectionQuery ==
    /\ test.pc = "started"
    /\ ClientExecuteSparqlOp("c1", test_query)
    /\ test' = [pc |-> "waiting"]
    /\ UNCHANGED <<shell, svc, sig, resp>>

\* execute_sparql ended: with a result, made of the response as
\* execute_sparql makes it, and test_connection returns whether it has
\* 'results'; or with an exception, and test_connection returns False.
TestConnectionReturn(response) ==
    /\ test.pc = "waiting"
    /\ call["c1"].pc = "done"
    /\ IF call["c1"].returned
       THEN /\ HandleSparql(response).exc = None
            /\ test' = [pc       |-> "done",
                        returned |-> TRUE,
                        caught   |-> None,
                        result   |-> HandleSparql(response).val,
                        value    |-> TestValue(HandleSparql(response).val)]
       ELSE /\ response = CHOOSE r \in TestResponses : TRUE
            /\ test' = [pc       |-> "done",
                        returned |-> FALSE,
                        caught   |-> call["c1"].raised.exc,
                        result   |-> JNull,
                        value    |-> FALSE]
    /\ call' = [call EXCEPT !["c1"] = IdleCall]
    /\ ev' = "test_connection_done"
    /\ init_result' = "none"
    /\ UNCHANGED <<cm, heap, borrowed, initialized, shell, svc, sig, resp>>

InitTest ==
    /\ Init
    /\ ~borrowed

\* The client may have been initialized, or initialized and closed, before
\* the test; the test then runs alone.
NextTest ==
    \/ /\ test.pc = "off"
       /\ \E fail \in {"none", "credentials", "ClientSession"}, got \in {"ok", "None"} :
             ClientInit(fail, got)
    \/ test.pc = "off" /\ ClientClose
    \/ \E fail \in {"none", "credentials", "ClientSession"}, got \in {"ok", "None"} :
          TestConnectionInit(fail, got)
    \/ TestConnectionQuery
    \/ \E o \in Outcomes : Respond("c1", o)
    \/ Wake("c1")
    \/ \E response \in TestResponses : TestConnectionReturn(response)

SpecTest == InitTest /\ [][NextTest]_vars

\* -------------------------------------------------------------- result store
DEFAULT_MAX_RESULTS == 50000
MEMORY_SAFE_LIMIT == 100000

Min(a, b) == IF a <= b THEN a ELSE b
Max(a, b) == IF a >= b THEN a ELSE b

\* xs[:k]: the first k elements, all of them when there are fewer; for a
\* negative k all but the last -k.
Slice(xs, k) ==
    IF k >= 0 THEN SubSeq(xs, 1, Min(k, Len(xs)))
    ELSE SubSeq(xs, 1, Max(Len(xs) + k, 0))

\* self.max_results = min(max_results, self.MEMORY_SAFE_LIMIT)
EffectiveLimit(max_results) == Min(max_results, MEMORY_SAFE_LIMIT)

\* The limits a service is constructed with and the limits a caller passes
\* as max_ai_results.
RequestedLimits == {-1, 0, 1, 2, DEFAULT_MAX_RESULTS, MEMORY_SAFE_LIMIT, MEMORY_SAFE_LIMIT + 1}
AiLimits == {-1, 0, 1, 10}

\* What the awaited client method gives execute_query: a result with the
\* rows 1..n, a result without 'results', a result that is no object, or
\* an exception.
RowLists == {[i \in 1..n |-> JInt(i)] : n \in 0..(MaxRows + 1)}

RawResults ==
    {Ok(JObj([results |-> JList(rows)])) : rows \in RowLists}
    \cup {Ok(JObj([status |-> JStr("success"), code |-> JInt(200)])),
          Ok(JList(<<>>)),
          Err("TimeoutError"), Err("AttributeError"), Err("ClientNotInitialized")}

NoMetadata == [total_result_count |-> None, stored_result_count |-> None,
               memory_truncated |-> None, error |-> None]

NotExported == [success |-> FALSE, error |-> "not_called", record_count |-> 0]

\* QueryExecutionService.__init__
NewService(max_results) ==
    /\ svc.pc = "off"
    /\ svc' = [pc         |-> "ready",
               max_results |-> EffectiveLimit(max_results),
               _last_complete_results |-> <<>>,
               _result_truncated_due_to_memory |-> FALSE,
               _last_query_metadata |-> NoMetadata,
               executed   |-> FALSE,     \* execute_query was called, its results not cleared
               before     |-> 0,         \* rows stored when it was last called
               raw        |-> Err(None), \* what the client method gave it
               returned   |-> NoMetadata,\* what it returned
               export     |-> NotExported]
    /\ UNCHANGED <<cm, heap, borrowed, initialized, call, ev, init_result, shell, sig, resp, test>>

\* the failure branch keeping what was stored before
Failed_KeepStore(service, exc) ==
    [service EXCEPT
        !._last_query_metadata = [total_result_count |-> 0, stored_result_count |-> 0,
                                  memory_truncated |-> FALSE, error |-> exc],
        !.returned = [success |-> FALSE, results |-> <<>>, result_count |-> 0,
                      returned_count |-> 0, truncated |-> FALSE, error |-> exc]]

\* The except branch of execute_query.
Failed(service, exc) ==
    [service EXCEPT
        !._last_complete_results = <<>>,
        !._result_truncated_due_to_memory = FALSE,
        !._last_query_metadata = [total_result_count |-> 0, stored_result_count |-> 0,
                                  memory_truncated |-> FALSE, error |-> exc],
        !.returned = [success |-> FALSE, results |-> <<>>, result_count |-> 0,
                      returned_count |-> 0, truncated |-> FALSE, error |-> exc]]

\* returned_results and ai_truncated
AiView(complete_results, for_ai_context, max_ai_results) ==
    IF for_ai_context /\ Len(complete_results) > max_ai_results
    THEN [rows |-> Slice(complete_results, max_ai_results), ai_truncated |-> TRUE]
    ELSE [rows |-> complete_results, ai_truncated |-> FALSE]

\* every row kept, whatever the limit
Stored_All(rows, limit) == [rows |-> rows, memory_truncated |-> FALSE]

\* complete_results and memory_truncated after the memory limit
Stored(rows, limit) ==
    IF Len(rows) > limit
    THEN [rows |-> Slice(rows, limit), memory_truncated |-> TRUE]
    ELSE [rows |-> rows, memory_truncated |-> FALSE]

\* The try block of execute_query on the result the client returned.
Succeeded(service, raw_result, for_ai_context, max_ai_results) ==
    LET complete == PyGet(raw_result, "results", JList(<<>>)).val[2]
        kept == Stored(complete, service.max_results)
        view == AiView(kept.rows, for_ai_context, max_ai_results)
    IN  [service EXCEPT
            !._last_complete_results = kept.rows,
            !._result_truncated_due_to_memory = kept.memory_truncated,
            !._last_query_metadata =
                [total_result_count  |-> Len(complete),
                 stored_result_count |-> Len(kept.rows),
                 memory_truncated    |-> kept.memory_truncated,
                 error               |-> None],
            !.returned =
                [success          |-> TRUE,
                 results          |-> view.rows,
                 result_count     |-> Len(complete),
                 returned_count   |-> Len(view.rows),
                 truncated        |-> view.ai_truncated \/ kept.memory_truncated,
                 memory_truncated |-> kept.memory_truncated,
                 memory_limit     |-> service.max_results,
                 for_ai_context   |-> for_ai_context,
                 max_ai_results   |-> max_ai_results]]

\* QueryExecutionService.execute_query, raw being what the client method
\* returned or raised.
ExecuteQuery(raw, for_ai_context, max_ai_results) ==
    /\ svc.pc = "ready"
    /\ LET after == IF raw.exc # None THEN Failed(svc, raw.exc)
                    ELSE IF raw.val[1] # "dict" THEN Failed(svc, "AttributeError")
                    ELSE Succeeded(svc, raw.val, for_ai_context, max_ai_results)
       IN  svc' = [after EXCEPT !.executed = TRUE,
                                !.before = Len(svc._last_complete_results),
                                !.raw = raw,
                                !.export = NotExported]
    /\ UNCHANGED <<cm, heap, borrowed, initialized, call, ev, init_result, shell, sig, resp, test>>

\* an export of the rows execute_query handed back
ExportOf_Returned(service, written) ==
    IF service._last_complete_results = <<>>
    THEN [success |-> FALSE, error |-> "no_results", record_count |-> 0]
    ELSE [success |-> TRUE, error |-> None,
          record_count |-> Len(service.returned.results)]

\* What export_last_results returns; written tells whether the CSV
\* exporter wrote the file or raised.
ExportOf(service, written) ==
    IF service._last_complete_results = <<>>
    THEN [success |-> FALSE, error |-> "no_results", record_count |-> 0]
    ELSE IF written
    THEN [success |-> TRUE, error |-> None,
          record_count |-> Len(service._last_complete_results)]
    ELSE [success |-> FALSE, error |-> "export_failed", record_count |-> 0]

\* QueryExecutionService.export_last_results
ExportLastResults(written) ==
    /\ svc.pc = "ready"
    /\ svc' = [svc EXCEPT !.export = ExportOf(svc, written)]
    /\ UNCHANGED <<cm, heap, borrowed, initialized, call, ev, init_result, shell, sig, resp, test>>

\* QueryExecutionService.clear_results
ClearResults ==
    /\ svc.pc = "ready"
    /\ svc' = [svc EXCEPT !._last_complete_results = <<>>,
                          !._last_query_metadata = NoMetadata,
                          !._result_truncated_due_to_memory = FALSE,
                          !.executed = FALSE]
    /\ UNCHANGED <<cm, heap, borrowed, initialized, call, ev, init_result, shell, sig, resp, test>>

\* QueryExecutionService.get_memory_status
MemoryStatus(service) ==
    [current_result_count |-> Len(service._last_complete_results),
     max_results_limit    |-> service.max_results,
     is_truncated         |-> service._result_truncated_due_to_memory]

InitStore ==
    /\ Init
    /\ ~borrowed

NextStore ==
    \/ \E max_results \in RequestedLimits : NewService(max_results)
    \/ \E raw \in RawResults, for_ai_context \in BOOLEAN, max_ai_results \in AiLimits :
          ExecuteQuery(raw, for_ai_context, max_ai_results)
    \/ \E written \in BOOLEAN : ExportLastResults(written)
    \/ ClearResults

SpecStore == InitStore /\ [][NextStore]_vars

\* ------------------------------------------------------ the shell's run()
\* max_retries of validate_connection
validation_max_retries == 3

\* What the user types at 'Retry connection? [Y/n]'.
RetryAnswers ==
    {<<>>, <<"y">>, <<"n">>, <<"N">>, <<" ", "N", "o", " ">>, <<"n", "o", "p", "e">>}

\* retry in ['n', 'no'], retry being input(...).strip().lower()
RetryDeclined(answer) == Lower(Strip(answer)) \in {<<"n">>, <<"n", "o">>}

\* How the test query of an attempt ends once a request went out: with a
\* result, or with the exception its retry loop gave up on.
TestQueryOutcomes == {"ok", "timeout", "http"}

\* What the main loop reads: a command it carries out, the choice to
\* quit, or Ctrl-C.
MainCommands == {"query", "quit", "interrupt"}

\* The finally clause of run(): cleanup(), after which run() returns.
\* clients[i].close_called records NeptuneClient.close() on the i-th client.
CleanupOp(sh, init, m, h) ==
    IF sh.neptune_client # 0 /\ sh.connected
    THEN LET c == ClientCloseOp(init, m, h)
         IN  [shell |-> [sh EXCEPT !.pc = "run_returned",
                                   !.clients[sh.neptune_client].close_called = TRUE],
              initialized |-> c.initialized, cm |-> c.cm, heap |-> c.heap]
    ELSE [shell |-> [sh EXCEPT !.pc = "run_returned"],
          initialized |-> init, cm |-> m, heap |-> h]

\* shell', initialized', cm' and heap' from the record an operator returns
RunBecomes(r) ==
    /\ shell' = r.shell
    /\ initialized' = r.initialized
    /\ cm' = r.cm
    /\ heap' = r.heap
    /\ UNCHANGED <<borrowed, call, ev, init_result, svc, sig, resp, test>>

\* run() up to the loop of validate_connection; without the endpoint or the
\* region in the environment validate_connection returns False at once.
RunStart(configured) ==
    /\ shell.pc = "off"
    /\ LET sh == [pc             |-> "validating",
                  attempt        |-> 0,
                  neptune_client |-> 0,      \* 0: None, i: the i-th client created
                  connected      |-> FALSE,
                  clients        |-> <<>>,   \* per client: the session its init() created
                  commands       |-> 0]
       IN  RunBecomes(IF configured
                      THEN [shell |-> sh, initialized |-> initialized, cm |-> cm, heap |-> heap]
                      ELSE CleanupOp(sh, initialized, cm, heap))

\* An attempt of validate_connection: NeptuneClient(...) and its init().
ValidateInit(fail, got) ==
    /\ shell.pc = "validating"
    /\ fail \in InitFails(NewManager(NoSession), heap)
    /\ got \in GotChoices(fail)
    /\ fail = "none" => CanCreate(heap)
    /\ LET a == InitSparqlOp(NewManager(NoSession), heap, fail, got)
       IN  RunBecomes(
              [shell |-> [shell EXCEPT
                             !.pc = "connecting",
                             !.neptune_client = Len(shell.clients) + 1,
                             !.clients = Append(@, [session |-> a.cm.client_session,
                                                    close_called |-> FALSE])],
               initialized |-> TRUE, cm |-> a.cm, heap |-> a.heap])

\* The attempt goes on after the exception of the test query: the prompt
\* while attempts are left, otherwise the end of the loop and of run().
ValidateFailed(sh, init, m, h) ==
    IF sh.attempt < validation_max_retries - 1
    THEN [shell |-> [sh EXCEPT !.pc = "prompt"], initialized |-> init, cm |-> m, heap |-> h]
    ELSE CleanupOp(sh, init, m, h)

\* The test query of the attempt: execute_sparql acquires a session when
\* the manager has none, raises when that fails or credentials are
\* missing, and otherwise ends as the retry loop does.
ValidateTest(fail, got, o) ==
    /\ shell.pc = "connecting"
    /\ fail \in (IF NeedsNewSession(cm, heap) THEN InitFails(cm, heap) ELSE {"skip"})
    /\ got \in (IF fail = "skip" THEN {"ok"} ELSE GotChoices(fail))
    /\ fail = "none" => CanCreate(heap)
    /\ LET a == IF fail = "skip" THEN [cm |-> cm, heap |-> heap, ok |-> TRUE]
                ELSE InitSparqlOp(cm, heap, fail, got)
           sent == ~NotInitialized("sparql", a.cm) /\ a.cm.credentials = "ok"
       IN  /\ ~sent => o = "ok"
           /\ RunBecomes(
                IF sent /\ o = "ok"
                THEN [shell |-> [shell EXCEPT !.pc = "main", !.connected = TRUE],
                      initialized |-> initialized, cm |-> a.cm, heap |-> a.heap]
                ELSE ValidateFailed(shell, initialized, a.cm, a.heap))

\* The answer to 'Retry connection? [Y/n]': a refusal leaves the loop, an
\* interrupted input() leaves run() through its finally clause, anything
\* else starts the next attempt.
RetryPrompt(answer, interrupted) ==
    /\ shell.pc = "prompt"
    /\ RunBecomes(
          IF interrupted \/ RetryDeclined(answer)
          THEN CleanupOp(shell, initialized, cm, heap)
          ELSE [shell |-> [shell EXCEPT !.pc = "validating", !.attempt = @ + 1],
                initialized |-> initialized, cm |-> cm, heap |-> heap])

\* One command of the main loop; quitting and an interrupt leave it.
MainCommand(command) ==
    /\ shell.pc = "main"
    /\ command = "query" => shell.commands < MaxCommands
    /\ RunBecomes(
          IF command = "query"
          THEN [shell |-> [shell EXCEPT !.commands = @ + 1],
                initialized |-> initialized, cm |-> cm, heap |-> heap]
          ELSE CleanupOp(shell, initialized, cm, heap))

InitRun ==
    /\ Init
    /\ ~borrowed

NextRun ==
    \/ \E configured \in BOOLEAN : RunStart(configured)
    \/ \E fail \in {"none", "credentials", "ClientSession"}, got \in {"ok", "None"} :
          ValidateInit(fail, got)
    \/ \E fail \in {"skip", "none", "credentials", "ClientSession"}, got \in {"ok", "None"},
          o \in TestQueryOutcomes : ValidateTest(fail, got, o)
    \/ \E answer \in RetryAnswers, interrupted \in BOOLEAN : RetryPrompt(answer, interrupted)
    \/ \E command \in MainCommands : MainCommand(command)

SpecRun == InitRun /\ [][NextRun]_vars

\* ------------------------------------------------------ the AI conversation
\* How many requests the AI answers in one conversation.
MaxFollowUps == 3

C_export == <<"/", "e", "x", "p", "o", "r", "t">>
C_reset == <<"/", "r", "e", "s", "e", "t">>
C_back == <<"/", "b", "a", "c", "k">>
C_quit == <<"/", "q", "u", "i", "t">>
C_exit == <<"/", "e", "x", "i", "t">>

\* follow_up in ['/back', '/quit', '/exit']
ExitCommands == {C_back, C_quit, C_exit}

\* follow_up.lower() in ['quit', 'exit', 'back', 'done', 'stop']
ExitPhrases == {Tail(C_quit), Tail(C_exit), Tail(C_back),
                <<"d", "o", "n", "e">>, <<"s", "t", "o", "p">>}

\* The lines typed at the conversation prompt.
ChatLines ==
    {<<>>, <<" ">>, C_back, <<" ">> \o C_quit, C_exit, C_export, C_reset,
     <<"/", "B", "a", "c", "k">>, <<"D", "o", "n", "e", " ">>, <<"s", "t", "o", "p">>,
     <<"h", "i">>, <<"d", "o", "n", "e", "?">>}

\* What the loop of continue_ai_conversation does with follow_up, the
\* stripped line: leave the loop, stay in it after a command, or hand
\* the text to the AI.
FollowUpKind(follow_up) ==
    IF follow_up = <<>> THEN "leave"
    ELSE IF Head(follow_up) = "/"
    THEN IF follow_up \in {C_export, C_reset} THEN "command"
         ELSE IF follow_up \in ExitCommands THEN "leave"
         ELSE "unknown"
    ELSE IF Lower(follow_up) \in ExitPhrases THEN "leave"
    ELSE "request"

\* break in a loop of continue_ai_conversation: that call returns to the
\* process_ai_query that made it, which returns to its caller, the loop
\* one level up or chat_with_ai.
LeaveLoop(sh) ==
    [sh EXCEPT !.depth = @ - 1,
               !.pc = IF sh.depth > 1 THEN "chat_prompt" ELSE "chat_main"]

\* process_ai_query(natural_query) called at nesting depth sh.depth: when
\* the AI answers, the results are shown and continue_ai_conversation is
\* called from inside it; an Exception is reported and the call returns; a
\* KeyboardInterrupt passes to the caller, which leaves its loop.
ProcessAiQuery(sh, ai) ==
    CASE ai = "answered" -> [sh EXCEPT !.depth = @ + 1,
                                       !.processed = @ + 1,
                                       !.pc = "chat_prompt"]
      [] ai = "raised" -> [sh EXCEPT !.pc = IF sh.depth > 0 THEN "chat_prompt"
                                            ELSE "chat_main"]
      [] ai = "interrupted" -> IF sh.depth > 0 THEN LeaveLoop(sh)
                               ELSE [sh EXCEPT !.pc = "chat_main"]

AiOutcomes == {"answered", "raised", "interrupted"}

\* chat_with_ai: the first request of a conversation.
ChatWithAi(line, ai) ==
    /\ shell.pc = "off"
    /\ LET natural_query == Strip(line)
           sh == [pc        |-> "chat_main",
                  depth     |-> 0,       \* loops of continue_ai_conversation running
                  processed |-> 0,       \* requests the AI answered
                  follow_up |-> natural_query,
                  left      |-> FALSE]   \* the last line asked to leave the conversation
       IN  shell' = IF natural_query = <<>> THEN sh ELSE ProcessAiQuery(sh, ai)
    /\ UNCHANGED <<cm, heap, borrowed, initialized, call, ev, init_result, svc, sig, resp, test>>

\* One pass of the innermost running loop of continue_ai_conversation:
\* the prompt, and what follows from the line typed (or from Ctrl-C).
ConversationInput(line, interrupted, ai) ==
    /\ shell.pc = "chat_prompt"
    /\ ai = "answered" => shell.processed < MaxFollowUps
    /\ LET follow_up == Strip(line)
           kind == FollowUpKind(follow_up)
           sh == [shell EXCEPT !.follow_up = follow_up,
                               !.left = ~interrupted /\ kind = "leave"]
       IN  shell' = IF interrupted \/ kind = "leave" THEN LeaveLoop(sh)
                    ELSE IF kind = "request" THEN ProcessAiQuery(sh, ai)
                    ELSE sh
    /\ UNCHANGED <<cm, heap, borrowed, initialized, call, ev, init_result, svc, sig, resp, test>>

InitChat ==
    /\ Init
    /\ ~borrowed

NextChat ==
    \/ \E line \in ChatLines, ai \in AiOutcomes : ChatWithAi(line, ai)
    \/ \E line \in ChatLines, interrupted \in BOOLEAN, ai \in AiOutcomes :
          ConversationInput(line, interrupted, ai)

SpecChat == InitChat /\ [][NextChat]_vars

\* ------------------------------------------------------------------- claims
QueryCalls == {c \in Calls : call[c].kind \in QueryKinds}

Retryable == {"timeout", "connector"}

\* C1: a query call sends at most 3 attempts, and once 3 attempts have
\* ended the call has ended (returned or raised); a 4th is never sent.
C1_AtMostThreeAttempts ==
    \A c \in QueryCalls :
        /\ call[c].sent <= 3
        /\ Len(call[c].outcomes) <= 3
        /\ Len(call[c].outcomes) = 3 =>
              /\ call[c].pc = "done"
              /\ call[c].returned \/ call[c].raised # NoExc

C1_Witness ==
    \E c \in QueryCalls :
        call[c].sent = 3 /\ call[c].pc = "done" /\ call[c].raised.exc = "TimeoutError"

\* C2 as stated: when every attempt of a query call fails with a retryable
\* error, 3 attempts are made, the waits are 5s then 10s, and the caller
\* gets the last attempt's error itself.
C2_Original ==
    \A c \in QueryCalls :
        (/\ call[c].pc = "done"
         /\ call[c].outcomes # <<>>
         /\ \A i \in 1..Len(call[c].outcomes) : call[c].outcomes[i] \in Retryable)
        => /\ call[c].sent = 3
           /\ call[c].outcomes \in [1..3 -> Retryable]
           /\ call[c].waits = <<5, 10>>
           /\ call[c].raised = [exc |-> ExcOf(call[c].outcomes[3]),
                                wrapped |-> FALSE, attempt |-> 3]

\* C2 amended: when every attempt of a query call fails with a retryable
\* error, 3 attempts are made, the waits are 5s then 10s, and the call
\* ends with the last attempt's error: a timeout is raised as it is, a
\* connection failure reaches the caller wrapped in a plain Exception
\* chained to it.
C2_ExhaustedRetries ==
    \A c \in QueryCalls :
        (/\ call[c].pc = "done"
         /\ call[c].outcomes # <<>>
         /\ \A i \in 1..Len(call[c].outcomes) : call[c].outcomes[i] \in Retryable)
        => /\ call[c].sent = 3
           /\ call[c].outcomes \in [1..3 -> Retryable]
           /\ call[c].waits = <<5, 10>>
           /\ call[c].raised = [exc |-> ExcOf(call[c].outcomes[3]),
                                wrapped |-> (call[c].outcomes[3] = "connector"),
                                attempt |-> 3]

C2_Witness ==
    \E c \in QueryCalls :
        /\ call[c].pc = "done"
        /\ call[c].outcomes = <<"timeout", "connector", "connector">>
        /\ call[c].raised.wrapped

\* A fatal outcome of a request: a failure that is neither a timeout nor
\* a connection-establishment failure.
Fatal == Outcomes \ ({"ok"} \cup Retryable)

\* An attempt whose post raised before anything was sent is fatal too.
NotSentEndsCall(c, i) ==
    call[c].outcomes[i] = "not_sent"
    => /\ i = Len(call[c].outcomes)
       /\ call[c].pc = "done"
       /\ call[c].sent = i - 1
       /\ Len(call[c].waits) = i - 1
       /\ call[c].raised.exc \in {"AttributeError", "RuntimeError"}
       /\ ~call[c].raised.wrapped
       /\ call[c].raised.attempt = i

\* C3 as stated: an attempt failing with a fatal error ends the call at
\* once, with no further attempt and no further wait, and the caller gets
\* that error itself.
C3_Original ==
    \A c \in QueryCalls : \A i \in 1..Len(call[c].outcomes) :
        /\ NotSentEndsCall(c, i)
        /\ call[c].outcomes[i] \in Fatal
           => /\ i = Len(call[c].outcomes)
              /\ call[c].pc = "done"
              /\ call[c].sent = i
              /\ Len(call[c].waits) = i - 1
              /\ call[c].raised = [exc |-> ExcOf(call[c].outcomes[i]),
                                   wrapped |-> FALSE, attempt |-> i]

\* C3 amended: an attempt failing with a fatal error ends the call at once,
\* with no further attempt and no further wait, whatever the attempt index;
\* the caller gets that error itself unless it is an aiohttp ClientError
\* (an HTTP error status, a server disconnect), which arrives wrapped in a
\* plain Exception chained to it.
C3_FatalEndsCall ==
    \A c \in QueryCalls : \A i \in 1..Len(call[c].outcomes) :
        /\ NotSentEndsCall(c, i)
        /\ call[c].outcomes[i] \in Fatal
           => /\ i = Len(call[c].outcomes)
              /\ call[c].pc = "done"
              /\ call[c].sent = i
              /\ Len(call[c].waits) = i - 1
              /\ call[c].raised = [exc |-> ExcOf(call[c].outcomes[i]),
                                   wrapped |-> (call[c].outcomes[i] \in {"http", "disconnect"}),
                                   attempt |-> i]

C3_Witness ==
    \E c \in QueryCalls :
        /\ call[c].outcomes = <<"timeout", "http">>
        /\ call[c].pc = "done"
        /\ call[c].raised.wrapped

\* The query text contains DELETE or CLEAR in some casing.
HasDeleteOrClear(query) ==
    \E i \in 1..Len(query) :
        query[i] \in {"delete", "Delete", "DELETE", "clear", "Clear", "CLEAR"}

\* C4: the timeout of attempt k is base * k, base being 300 for a SPARQL
\* request whose text contains DELETE or CLEAR in any casing and 120 for
\* every other query request; it grows strictly over the attempts.
C4_TimeoutEscalation ==
    \A c \in QueryCalls :
        LET base == IF call[c].kind = "sparql" /\ HasDeleteOrClear(call[c].query)
                    THEN 300 ELSE 120
            t == call[c].timeouts
        IN  /\ Len(t) = call[c].sent
            /\ \A k \in 1..Len(t) : t[k] = base * k
            /\ \A k \in 1..(Len(t) - 1) : t[k] < t[k + 1]

C4_Witness ==
    \E c \in QueryCalls :
        /\ call[c].kind = "sparql"
        /\ call[c].query = <<"delete">>
        /\ call[c].timeouts = <<300, 600, 900>>

\* C5: no wait precedes attempt 1, and the k-th wait of a call, which lies
\* between attempt k and attempt k+1, lasts 5 * 2^(k-1) seconds, for all
\* three protocols alike.
C5_Backoff ==
    \A c \in QueryCalls :
        LET w == call[c].waits
        IN  /\ \A k \in 1..Len(w) : w[k] = 5 * (2 ^ (k - 1))
            /\ call[c].sent = 0 => w = <<>>
            /\ call[c].sent \in {Len(w), Len(w) + 1}
            /\ call[c].pc = "sleeping" => call[c].sent = Len(w)
            /\ call[c].pc = "inflight" => call[c].sent = Len(w) + 1

C5_Witness ==
    \E c \in QueryCalls :
        /\ call[c].kind = "gremlin"
        /\ call[c].waits = <<5, 10>>
        /\ call[c].pc = "inflight"

\* C6: within a call at most one attempt is in flight, and attempt k+1 is
\* sent only from the end of the backoff wait that followed the retryable
\* failure of attempt k.
C6_Sequential ==
    [][\A c \in Calls :
          /\ call'[c].inflight <= 1
          /\ (call[c].kind \in QueryKinds
                /\ call'[c].sent > call[c].sent /\ call[c].sent >= 1)
             => /\ call[c].pc = "sleeping"
                /\ call[c].inflight = 0
                /\ Len(call[c].outcomes) = call[c].sent
                /\ call[c].outcomes[call[c].sent] \in Retryable
                /\ Len(call[c].waits) = call[c].sent
                /\ call'[c].sent = call[c].sent + 1]_vars

C6_Witness ==
    \E c \in QueryCalls :
        call[c].sent = 2 /\ call[c].pc = "inflight" /\ call[c].inflight = 1

\* C7: a session supplied by the caller is never closed by the manager:
\* whatever init_sparql, execute_*, reset and close() calls have run, it is
\* open or was closed by the caller.
C7_BorrowedNeverClosed ==
    borrowed => heap[BorrowedId] \in {"open", "closed_by_caller"}

C7_Witness ==
    /\ borrowed
    /\ ev = "close"
    /\ cm.client_session = BorrowedId
    /\ cm.credentials = "ok"
    /\ heap[BorrowedId] = "open"

\* C8: close() is idempotent: in every reachable state a close() directly
\* after a close() changes nothing, closes nothing and does not raise, for
\* the manager and for the client; and close() on a manager or client that
\* never opened a session does nothing and does not raise.
C8_CloseIdempotent ==
    LET c1 == CloseOp(cm, heap)
        c2 == CloseOp(c1.cm, c1.heap)
        k1 == ClientCloseOp(initialized, cm, heap)
        k2 == ClientCloseOp(k1.initialized, k1.cm, k1.heap)
        neverOpened == \A s \in CreatedIds : heap[s] = "absent"
    IN  /\ ~c1.raised /\ ~c2.raised /\ ~c2.invoked
        /\ c2.cm = c1.cm /\ c2.heap = c1.heap
        /\ ~k1.raised /\ ~k2.raised /\ ~k2.invoked
        /\ k2.cm = k1.cm /\ k2.heap = k1.heap /\ k2.initialized = k1.initialized
        /\ neverOpened => (~c1.invoked /\ c1.cm = cm /\ c1.heap = heap
                           /\ ~k1.invoked /\ k1.cm = cm /\ k1.heap = heap)

C8_Witness ==
    /\ ev = "close"
    /\ cm.owns_session
    /\ cm.client_session = NoSession
    /\ \E s \in CreatedIds : heap[s] = "closed_by_manager"

\* The step just taken ran the acquisition of an operation and it succeeded.
AcquiredStep ==
    \/ ev' \in {"enter_acquired", "enter_no_credentials",
               "client_enter_acquired", "client_enter_no_credentials"}
    \/ ev' \in {"init_sparql", "client_init"} /\ init_result' = "ok"

\* C9: whenever the acquisition step of an operation succeeds, the session
\* held afterwards is open; it is a new session, marked owned, exactly when
\* the manager held no session or a closed one (owned or borrowed, also
\* after an earlier close()), and otherwise it is the open session held
\* before, with the ownership flag unchanged.
C9_Acquire ==
    [][AcquiredStep =>
          LET held  == cm.client_session
              fresh == held = NoSession
                          \/ heap[held] \in {"closed_by_manager", "closed_by_caller"}
              now   == cm'.client_session
          IN  /\ now # NoSession
              /\ heap'[now] = "open"
              /\ fresh => (heap[now] = "absent" /\ cm'.owns_session)
              /\ ~fresh => (now = held /\ cm'.owns_session = cm.owns_session
                            /\ heap' = heap)]_vars

C9_Witness ==
    /\ borrowed
    /\ ev = "enter_acquired"
    /\ heap[BorrowedId] = "closed_by_caller"
    /\ cm.client_session \in CreatedIds
    /\ cm.owns_session

\* The step just taken handed a request to the session.
SentStep(c) == call'[c].sent > call[c].sent

\* C10: when init_sparql fails, the manager afterwards holds no session,
\* its SPARQL endpoint is unset and no session it created is open; and a
\* request is only ever sent on an open session of a manager whose
\* endpoint is set and whose credentials were assigned.
C10_InitFailureUnwinds ==
    [][/\ init_result' = "failed" =>
             /\ cm'.client_session = NoSession
             /\ cm'.sparql_endpoint = None
             /\ \A s \in CreatedIds : heap'[s] # "open"
       /\ \A c \in Calls : SentStep(c) =>
             /\ cm'.client_session # NoSession
             /\ heap'[cm'.client_session] = "open"
             /\ cm'.sparql_endpoint = "url"
             /\ cm'.credentials # "unset"]_vars

C10_Witness ==
    /\ init_result = "failed"
    /\ ev = "init_sparql"
    /\ cm.credentials = "ok"
    /\ \E s \in CreatedIds : heap[s] = "closed_by_manager"

\* The step just taken began an operation in frame c.
StartStep(c) == call[c].pc = "idle" /\ call'[c].pc # "idle"

\* Frame c ended at once with an exception and nothing was sent.
FailedUnsent(c) ==
    /\ call'[c].pc = "done"
    /\ call'[c].raised # NoExc
    /\ ~call'[c].returned
    /\ call'[c].sent = 0
    /\ call'[c].reqs = <<>>
    /\ call'[c].inflight = 0

\* C11: an operation begun while the client is not initialized (before
\* init() or after close()) raises at once, and any operation begun on a
\* manager that holds no session or no credentials once its acquisition
\* has run raises at once; in both cases no request is sent.
C11_NotReadyFailsUnsent ==
    [][\A c \in Calls :
          /\ (StartStep(c) /\ ev' \in ClientEvs /\ ~initialized)
             => (FailedUnsent(c) /\ call'[c].raised.exc = "ClientNotInitialized"
                 /\ cm' = cm /\ heap' = heap)
          /\ (StartStep(c) /\ (cm'.credentials # "ok" \/ cm'.client_session = NoSession))
             => FailedUnsent(c)]_vars

C11_Witness ==
    /\ ~borrowed
    /\ ~initialized
    /\ ev = "client_not_initialized"
    /\ call["c1"].kind = FastKind
    /\ call["c1"].raised.exc = "ClientNotInitialized"
    /\ \E s \in CreatedIds : heap[s] = "closed_by_manager"

FastCalls == {c \in Calls : call[c].kind = FastKind}

\* A performDatabaseReset request was handed to the session by frame cl.
PerformSent(cl) ==
    \E i \in 1..Len(cl.reqs) : cl.reqs[i].action = "performDatabaseReset"

\* C12: when the initiate step of fast_reset_database raises (before its
\* post, by a failed post, or on a response without a token), the fast
\* reset has ended with that exception and no performDatabaseReset request
\* was sent.
C12_NoPerformAfterFailedInitiate ==
    \A c \in FastCalls :
        LET cl == call[c]
        IN  /\ (Len(cl.outcomes) >= 1 /\ cl.outcomes[1] # "ok")
               => /\ cl.pc = "done"
                  /\ cl.raised.exc = ExcOf(cl.outcomes[1])
                  /\ ~cl.returned
                  /\ ~PerformSent(cl)
                  /\ cl.sent = 1
            /\ (cl.pc = "done" /\ cl.outcomes = <<>>)
               => (cl.raised # NoExc /\ cl.reqs = <<>>)

C12_Witness ==
    \E c \in FastCalls :
        /\ call[c].pc = "done"
        /\ call[c].outcomes = <<"bad_format">>
        /\ call[c].raised.exc = "InvalidResponseFormat"
        /\ call[c].reqs = <<[action |-> "initiateDatabaseReset", token |-> None]>>

\* The requests frame cl handed to the session, by action name.
ActionsSent(cl) == [i \in 1..Len(cl.reqs) |-> cl.reqs[i].action]

\* C13: a fast reset sends initiateDatabaseReset first and
\* performDatabaseReset second and nothing else; the perform request is sent
\* in the step in which the initiate response delivered a token, it carries
\* that token, and it is sent at most once.
C13_ResetProtocol ==
    [][\A c \in Calls :
          (call'[c].kind = FastKind) =>
              LET cl == call[c]
                  nx == call'[c]
              IN  /\ ActionsSent(nx) \in {<<>>, <<"initiateDatabaseReset">>,
                                          <<"initiateDatabaseReset", "performDatabaseReset">>}
                  /\ (Len(nx.reqs) > Len(cl.reqs) /\ Len(cl.reqs) = 1)
                     => /\ cl.pc = "inflight"
                        /\ cl.stage = "initiate"
                        /\ nx.outcomes = <<"ok">>
                        /\ nx.token \in ResetTokens
                        /\ nx.reqs[2].token = nx.token
                  /\ (Len(cl.reqs) = 2) => (nx.reqs = cl.reqs /\ nx.token = cl.token)]_vars

C13_Witness ==
    \E c \in FastCalls :
        /\ call[c].pc = "done"
        /\ call[c].returned
        /\ call[c].token = "tokB"
        /\ call[c].reqs = <<[action |-> "initiateDatabaseReset", token |-> None],
                            [action |-> "performDatabaseReset", token |-> "tokB"]>>

\* The frames whose perform_database_reset step has ended.
PerformEnded ==
    {c \in Calls : /\ call[c].pc = "done"
                   /\ PerformSent(call[c])
                   /\ StepOf(call[c]) = "perform"}

\* C14: when the perform request was answered, the call returns True if
\* the status string is "200 OK" and False for any other or missing status,
\* without an exception; when the request itself failed, the call raises
\* and returns nothing.
C14_PerformResult ==
    \A c \in PerformEnded :
        LET cl   == call[c]
            last == cl.outcomes[Len(cl.outcomes)]
        IN  IF last = "ok"
            THEN /\ cl.returned
                 /\ cl.raised = NoExc
                 /\ cl.status \in Statuses
                 /\ cl.value = (IF cl.status = "200 OK" THEN "True" ELSE "False")
            ELSE /\ ~cl.returned
                 /\ cl.value = None
                 /\ cl.raised.exc = ExcOf(last)
                 /\ cl.raised.wrapped

C14_Witness ==
    \E c \in PerformEnded :
        /\ call[c].kind = FastKind
        /\ call[c].status = "200"
        /\ call[c].value = "False"
        /\ call[c].returned
        /\ call[c].raised = NoExc

ResetCalls == {c \in Calls : call[c].kind \in ResetKinds \cup {FastKind}}

\* How many requests with the given action frame cl handed to the session.
CountAction(cl, action) ==
    Cardinality({i \in 1..Len(cl.reqs) : cl.reqs[i].action = action})

\* C15: a reset step (initiate or perform, called alone or by
\* fast_reset_database) that gets as far as its post sends exactly one
\* request and never more; it never waits for a retry, and when the request
\* ends in a timeout, a connection failure or any other error the step
\* raises in that same step without sending again.
C15_ResetSingleAttempt ==
    [][\A c \in Calls :
          (call'[c].kind \in ResetKinds \cup {FastKind}) =>
              LET cl == call[c]
                  nx == call'[c]
              IN  /\ CountAction(nx, "initiateDatabaseReset") <= 1
                  /\ CountAction(nx, "performDatabaseReset") <= 1
                  /\ nx.kind = "initiate" => CountAction(nx, "performDatabaseReset") = 0
                  /\ nx.kind = "perform" => CountAction(nx, "initiateDatabaseReset") = 0
                  /\ nx.pc # "sleeping"
                  /\ nx.waits = <<>>
                  /\ nx.retry_count = 0
                  /\ (StartStep(c) /\ ev' \in {"enter_acquired", "client_enter_acquired"})
                     => (Len(nx.reqs) = 1 /\ nx.pc = "inflight" /\ nx.inflight = 1)
                  /\ (cl.pc = "inflight" /\ Len(nx.outcomes) > Len(cl.outcomes)
                        /\ nx.outcomes[Len(nx.outcomes)] # "ok")
                     => /\ nx.pc = "done"
                        /\ nx.raised.exc = ExcOf(nx.outcomes[Len(nx.outcomes)])
                        /\ nx.reqs = cl.reqs
                        /\ nx.inflight = 0]_vars

C15_Witness ==
    \E c \in ResetCalls :
        /\ call[c].kind = "perform"
        /\ call[c].pc = "done"
        /\ call[c].outcomes = <<"timeout">>
        /\ call[c].raised = [exc |-> "TimeoutError", wrapped |-> TRUE, attempt |-> 1]
        /\ call[c].timeouts = <<perform_timeout>>
        /\ Len(call[c].reqs) = 1

\* C17: within a query call the i-th request carries the headers of the
\* i-th signing of that call: each attempt is signed for itself and no
\* retry re-sends headers signed before an earlier attempt.
C17_SignedPerAttempt ==
    \A c \in QueryCalls :
        \A i \in 1..Len(call[c].headers) : call[c].headers[i] = i

\* The step just taken called neptune_client.reset_database().
ResetInvoked == call["c1"].kind # FastKind /\ call'["c1"].kind = FastKind

\* C16 as stated: the reset is invoked only after the user typed yes and
\* then DELETE ALL DATA, letter for letter, and every other line at either
\* prompt cancels.
C16_Original ==
    [][/\ ResetInvoked
          => (shell'.confirm1 = yes /\ shell'.confirm2 = DELETE_ALL_DATA)
       /\ (shell.pc = "prompt1" /\ shell'.confirm1 # yes) => shell'.pc = "main"
       /\ (shell.pc = "prompt2" /\ shell'.confirm2 # DELETE_ALL_DATA)
          => shell'.pc = "main"]_vars

\* C16: the shell calls reset_database() only from the second prompt of a
\* /reset command whose first answer, stripped of surrounding whitespace
\* and lowercased, is yes and whose second answer, stripped of surrounding
\* whitespace, is DELETE ALL DATA in that case; any other answer at either
\* prompt returns to the menu, no call is begun and no request is sent.
C16_ResetNeedsConfirmation ==
    [][/\ ResetInvoked
          => /\ shell.pc = "prompt2"
             /\ shell'.confirm1 = shell.confirm1
             /\ Lower(Strip(shell'.confirm1)) = yes
             /\ Strip(shell'.confirm2) = DELETE_ALL_DATA
       /\ (shell.pc = "prompt1" /\ shell'.pc # "prompt1"
             /\ Lower(Strip(shell'.confirm1)) # yes)
          => (shell'.pc = "main" /\ call' = call)
       /\ (shell.pc = "prompt2" /\ shell'.pc # "prompt2"
             /\ Strip(shell'.confirm2) # DELETE_ALL_DATA)
          => (shell'.pc = "main" /\ call' = call)
       /\ (call'["c1"].kind = FastKind)
          => (shell'.pc = "resetting" /\ shell'.confirm2 # None)]_vars

C16_Witness ==
    /\ shell.pc = "resetting"
    /\ shell.confirm1 = <<" ", "Y", "e", "s", "\t">>
    /\ shell.confirm2 = <<" ">> \o DELETE_ALL_DATA \o <<" ", "\t">>
    /\ call["c1"].kind = FastKind
    /\ Len(call["c1"].reqs) = 2

RetryableCount(outcomes) ==
    Cardinality({i \in 1..Len(outcomes) : outcomes[i] \in Retryable})

\* C18: with two query calls interleaved on one manager, every step
\* changes the frame of one call and leaves the other call's attempt
\* counter, timeouts, waits and requests as they were; each call's counter
\* counts its own retryable failures, its timeouts and waits follow its own
\* attempts, and no call makes more than 3 attempts.
C18_CallsIndependent ==
    [][\A c \in Calls :
          /\ \A d \in Calls \ {c} :
                (call'[c] # call[c]) => (call'[d] = call[d])
          /\ (call'[c].kind \in QueryKinds) =>
                LET nx   == call'[c]
                    base == IF nx.kind = "sparql" /\ HasDeleteOrClear(nx.query)
                            THEN 300 ELSE 120
                IN  /\ nx.sent <= 3
                    /\ nx.retry_count = RetryableCount(nx.outcomes)
                    /\ Len(nx.timeouts) = nx.sent
                    /\ \A k \in 1..Len(nx.timeouts) : nx.timeouts[k] = base * k
                    /\ Len(nx.waits) \in {nx.sent - 1, nx.sent}
                    /\ \A k \in 1..Len(nx.waits) : nx.waits[k] = 5 * (2 ^ (k - 1))]_vars

C18_Witness ==
    /\ call["c1"].kind = "sparql"
    /\ call["c1"].query = <<"delete">>
    /\ call["c1"].pc = "sleeping"
    /\ call["c1"].retry_count = 2
    /\ call["c1"].timeouts = <<300, 600>>
    /\ call["c2"].kind = "gremlin"
    /\ call["c2"].pc = "inflight"
    /\ call["c2"].retry_count = 1
    /\ call["c2"].timeouts = <<120, 240>>
    /\ call["c2"].waits = <<5>>

\* The text contains the keyword in some casing.
ContainsAnyCase(text, keyword) == Contains(UpperText(text), UpperText(keyword))

\* C20: a SPARQL request carries Content-Type application/sparql-update
\* when its body, the query after parameter substitution, contains INSERT,
\* DELETE, CLEAR, CREATE, DROP or LOAD in any casing, and
\* application/sparql-query when it contains none of them; openCypher,
\* Gremlin and reset requests carry application/json.
C20_ContentType ==
    (sig.pc = "signed") =>
        IF sig.kind = "sparql"
        THEN /\ sig.body = FormattedQuery(sig.query, sig.params)
             /\ sig.content_type \in {"application/sparql-update",
                                      "application/sparql-query"}
             /\ (sig.content_type = "application/sparql-update")
                <=> (\/ ContainsAnyCase(sig.body, K_INSERT)
                     \/ ContainsAnyCase(sig.body, K_DELETE)
                     \/ ContainsAnyCase(sig.body, K_CLEAR)
                     \/ ContainsAnyCase(sig.body, K_CREATE)
                     \/ ContainsAnyCase(sig.body, K_DROP)
                     \/ ContainsAnyCase(sig.body, K_LOAD))
        ELSE sig.content_type = "application/json"

C20_Witness ==
    /\ sig.pc = "signed"
    /\ sig.kind = "sparql"
    /\ sig.query = W_select \o <<" ">> \o W_placeholder
    /\ sig.params = [type |-> "list", v |-> <<[type |-> "str", v |-> W_LOAD],
                                             [type |-> "int", v |-> <<"5">>]>>]
    /\ sig.body = W_select \o <<" ", "(">> \o Quote \o W_LOAD \o Quote
                     \o <<",", " ", "5", ")">>
    /\ sig.content_type = "application/sparql-update"

\* A response the SPARQL handler parses: status 200 and a content type
\* that announces JSON.
SparqlJsonResponse(response) ==
    /\ response.status = 200
    /\ IsJsonResponse(response)
    /\ AcceptsAsJson(response.content_type)
    /\ response.body.kind = "json"

HasBindings(doc) ==
    /\ doc[1] = "dict"
    /\ "results" \in DOMAIN doc[2]
    /\ doc[2].results[1] = "dict"
    /\ "bindings" \in DOMAIN doc[2].results[2]

WellFormedBinding(binding) ==
    /\ binding[1] = "dict"
    /\ \A var \in DOMAIN binding[2] :
          binding[2][var][1] = "dict" /\ "value" \in DOMAIN binding[2][var][2]

WellFormedBindings(response) ==
    /\ SparqlJsonResponse(response)
    /\ HasBindings(response.body.doc)
    /\ response.body.doc[2].results[2].bindings[1] = "list"
    /\ \A i \in 1..Len(response.body.doc[2].results[2].bindings[2]) :
          WellFormedBinding(response.body.doc[2].results[2].bindings[2][i])

SparqlHandled == resp.pc = "handled" /\ resp.protocol = "sparql"

\* C21: a well-formed SPARQL bindings response is transformed to one row
\* per binding, in the same order, and each row has exactly the variables
\* of its binding, each with the "value" of the variable's entry and none
\* of the entry's other members.
C21_OneRowPerBinding ==
    (SparqlHandled /\ WellFormedBindings(resp.response)) =>
        /\ resp.exc = None
        /\ resp.result[1] = "dict"
        /\ DOMAIN resp.result[2] = {"results"}
        /\ resp.result[2].results[1] = "list"
        /\ LET bindings == resp.response.body.doc[2].results[2].bindings[2]
               rows == resp.result[2].results[2]
           IN  /\ Len(rows) = Len(bindings)
               /\ \A i \in 1..Len(bindings) :
                     /\ rows[i][1] = "dict"
                     /\ DOMAIN rows[i][2] = DOMAIN bindings[i][2]
                     /\ \A var \in DOMAIN bindings[i][2] :
                           rows[i][2][var] = bindings[i][2][var][2].value

C21_Witness ==
    /\ SparqlHandled
    /\ WellFormedBindings(resp.response)
    /\ Len(resp.result[2].results[2]) = 2
    /\ DOMAIN resp.result[2].results[2][1][2] = {"s", "o"}
    /\ DOMAIN resp.result[2].results[2][2][2] = {"s"}
    /\ resp.result[2].results[2][1][2].o = JStr("5")

\* The ASK form of a SPARQL JSON document: a boolean member and no results
\* member.
AskDocument(doc) ==
    /\ doc[1] = "dict"
    /\ "boolean" \in DOMAIN doc[2]
    /\ "results" \notin DOMAIN doc[2]

AskAnswered ==
    /\ SparqlHandled
    /\ SparqlJsonResponse(resp.response)
    /\ AskDocument(resp.response.body.doc)

\* C22: a SPARQL JSON response of the ASK form is transformed to exactly
\* one row, {"boolean": v}, v being the boolean of the response.
C22_AskOneRow ==
    AskAnswered =>
        /\ resp.exc = None
        /\ resp.result[1] = "dict"
        /\ DOMAIN resp.result[2] = {"results"}
        /\ resp.result[2].results[1] = "list"
        /\ Len(resp.result[2].results[2]) = 1
        /\ resp.result[2].results[2][1] =
              JObj([boolean |-> resp.response.body.doc[2].boolean])

C22_Witness ==
    /\ AskAnswered
    /\ resp.response.body.doc[2].boolean = JBool(FALSE)
    /\ resp.result = JObj([results |-> JList(<<JObj([boolean |-> JBool(FALSE)])>>)])

\* C23: a SPARQL response with status 200 whose body is not JSON (it is
\* empty, or text that is no JSON document) gives the caller a result with
\* no rows, status "success" and code 200, whatever its headers.
C23_NonJsonBodyIsSuccess ==
    (SparqlHandled /\ resp.response.status = 200
                   /\ resp.response.body.kind \in {"empty", "text"}) =>
        /\ resp.exc = None
        /\ resp.view.exc = None
        /\ resp.view.val.rows = JList(<<>>)
        /\ resp.view.val.status = JStr("success")
        /\ resp.view.val.code = JInt(200)

\* The Content-Type headers without "json" in them.
NonJsonHeaders == {CT_absent, CT_text}

\* C23 as the code has it: with status 200, a response whose Content-Type
\* header is absent or does not contain "json" gives the result
\* {status: success, code: 200}, which the service reports with no rows,
\* whatever the body is; a response whose header announces JSON is parsed,
\* and the call raises when its body is empty or no JSON document.
C23_NonJsonHeaderIsSuccess ==
    (SparqlHandled /\ resp.response.status = 200) =>
        /\ resp.response.content_type \in NonJsonHeaders =>
              /\ resp.exc = None
              /\ resp.result = JObj([status |-> JStr("success"), code |-> JInt(200)])
              /\ resp.view.exc = None
              /\ resp.view.val.rows = JList(<<>>)
              /\ resp.view.val.status = JStr("success")
              /\ resp.view.val.code = JInt(200)
        /\ (resp.response.content_type \notin NonJsonHeaders
              /\ resp.response.body.kind \in {"empty", "text"}) =>
              resp.exc \in {"TypeError", "JSONDecodeError", "ContentTypeError"}

C23_Witness ==
    /\ SparqlHandled
    /\ resp.response.status = 200
    /\ resp.response.content_type = CT_text
    /\ resp.response.body.kind = "json"
    /\ resp.view.exc = None
    /\ resp.view.val.rows = JList(<<>>)

\* C24: a SPARQL response whose status is not 200 and whose Content-Type
\* is not JSON is returned, not raised: the caller gets the record
\* {status: error, code: <status>, message: <response text>}.
C24_ErrorRecordReturned ==
    (SparqlHandled /\ resp.response.status # 200
                   /\ resp.response.content_type \in NonJsonHeaders) =>
        /\ resp.exc = None
        /\ resp.result = JObj([status  |-> JStr("error"),
                               code    |-> JInt(resp.response.status),
                               message |-> TextOf(resp.response.body)])

\* A response any of the three handlers parses: status 200, a JSON content
\* type and a body that is a JSON document.
Parseable(response) ==
    /\ response.status = 200
    /\ AcceptsAsJson(response.content_type)
    /\ response.body.kind = "json"

\* C25: no handler raises on a response that parses, whatever the shape of
\* the document: the call returns a result.
C25_NoRaiseOnParseable ==
    (resp.pc = "handled" /\ Parseable(resp.response)) => resp.exc = None

GremlinHandled ==
    resp.pc = "handled" /\ resp.protocol = "gremlin" /\ Parseable(resp.response)

\* The three forms the value under "result" is described to take: an
\* object whose "data" is a list, a bare list, a single scalar.
ResultForm(doc) ==
    IF ~(doc[1] = "dict" /\ "result" \in DOMAIN doc[2]) THEN "none"
    ELSE LET result == doc[2].result
         IN  CASE result[1] = "dict" /\ "data" \in DOMAIN result[2]
                    /\ result[2].data[1] = "list"        -> "data"
               [] result[1] = "list"                      -> "list"
               [] result[1] \in {"str", "int", "bool"}    -> "scalar"
               [] OTHER                                   -> "other"

\* The elements of a result of one of the three forms.
Elements(doc) ==
    CASE ResultForm(doc) = "data"   -> doc[2].result[2].data[2]
      [] ResultForm(doc) = "list"   -> doc[2].result[2]
      [] ResultForm(doc) = "scalar" -> <<doc[2].result>>
      [] OTHER                      -> <<>>

GremlinRows == resp.result[2].results[2]

\* The value a property element binds: the "value" member of the element,
\* or of the element's "@value" when the element is tagged.
BoundValue(element) ==
    IF "value" \in DOMAIN element[2] THEN element[2].value
    ELSE element[2]["@value"][2].value

HasBoundValue(element) ==
    /\ element[1] = "dict"
    /\ \/ "value" \in DOMAIN element[2]
       \/ /\ "@value" \in DOMAIN element[2]
          /\ element[2]["@value"][1] = "dict"
          /\ "value" \in DOMAIN element[2]["@value"][2]

\* A vertex-tagged element whose properties each list at least one bound
\* value and bear none of the names id, label and type.
WellFormedVertex(item) ==
    /\ IsTagged(item)
    /\ item[2]["@type"] = JStr("g:Vertex")
    /\ item[2]["@value"][1] = "dict"
    /\ {"id", "label", "properties"} \subseteq DOMAIN item[2]["@value"][2]
    /\ item[2]["@value"][2].properties[1] = "dict"
    /\ \A name \in DOMAIN item[2]["@value"][2].properties[2] :
          /\ name \notin {"id", "label", "type"}
          /\ item[2]["@value"][2].properties[2][name][1] = "list"
          /\ Len(item[2]["@value"][2].properties[2][name][2]) > 0
          /\ HasBoundValue(item[2]["@value"][2].properties[2][name][2][1])

\* C26: the row of a vertex-tagged element has the vertex's id and label,
\* type "vertex", and for each property the first value bound to it, so
\* that the property {"name": [{"value": "Alice"}]} gives name = "Alice".
C26_VertexFlattened ==
    (GremlinHandled /\ ResultForm(resp.response.body.doc) # "none") =>
        \A i \in 1..Len(Elements(resp.response.body.doc)) :
            LET item == Elements(resp.response.body.doc)[i]
            IN  WellFormedVertex(item) =>
                  LET vertex == item[2]["@value"][2]
                      row == GremlinRows[i]
                  IN  /\ row[1] = "dict"
                      /\ DOMAIN row[2] =
                            {"id", "label", "type"} \cup DOMAIN vertex.properties[2]
                      /\ row[2].id = vertex.id
                      /\ row[2].label = vertex.label
                      /\ row[2].type = JStr("vertex")
                      /\ \A name \in DOMAIN vertex.properties[2] :
                            row[2][name] = BoundValue(vertex.properties[2][name][2][1])

\* C27: when the value under "result" is an object whose "data" is a list,
\* a bare list or a single scalar, the transformed result has one row per
\* element of, in that order, the data list, the list itself, the
\* one-element list of the scalar.
C27_ResultNormalized ==
    (GremlinHandled
        /\ ResultForm(resp.response.body.doc) \in {"data", "list", "scalar"}) =>
        /\ resp.exc = None
        /\ resp.result[1] = "dict"
        /\ DOMAIN resp.result[2] = {"results"}
        /\ resp.result[2].results[1] = "list"
        /\ Len(GremlinRows) = Len(Elements(resp.response.body.doc))
        /\ \A i \in 1..Len(GremlinRows) :
              GremlinRows[i] = TransformItem(Elements(resp.response.body.doc)[i])

C27_Witness ==
    /\ GremlinHandled
    /\ resp.response.body.doc = JObj([result |-> JInt(5)])
    /\ GremlinRows = <<JObj([value |-> JInt(5)])>>

IsVertexTagged(item) == IsTagged(item) /\ item[2]["@type"] = JStr("g:Vertex")
IsEdgeTagged(item) == IsTagged(item) /\ item[2]["@type"] = JStr("g:Edge")

EdgeKeys == {"id", "label", "type", "inV", "outV"}

\* An edge-tagged element that can be flattened: its "@value" is an
\* object whose properties, if any, are an object.
WellFormedEdge(item) ==
    /\ IsEdgeTagged(item)
    /\ item[2]["@value"][1] = "dict"
    /\ "properties" \in DOMAIN item[2]["@value"][2] =>
          item[2]["@value"][2].properties[1] = "dict"

EdgeProperties(item) ==
    IF "properties" \in DOMAIN item[2]["@value"][2]
    THEN item[2]["@value"][2].properties[2]
    ELSE NoMembers

\* The row of an edge: the five fixed members, then every property under
\* its name, a property named like a fixed member taking its place.
EdgeRow(row, item) ==
    LET edge == item[2]["@value"][2]
        props == EdgeProperties(item)
    IN  /\ row[1] = "dict"
        /\ DOMAIN row[2] = EdgeKeys \cup DOMAIN props
        /\ \A name \in DOMAIN props : row[2][name] = props[name]
        /\ \A key \in EdgeKeys \ DOMAIN props :
              row[2][key] = IF key = "type" THEN JStr("edge")
                            ELSE IF key \in DOMAIN edge THEN edge[key] ELSE JNull

\* C28 as stated: the row of an element that is not vertex-tagged is the
\* edge record of an edge-tagged element, {"value": v} for an element
\* tagged otherwise with value v, or {"value": s} for a scalar s, and
\* nothing else.
C28_ThreeShapes ==
    (GremlinHandled /\ ResultForm(resp.response.body.doc) # "none") =>
        \A i \in 1..Len(Elements(resp.response.body.doc)) :
            LET item == Elements(resp.response.body.doc)[i]
                row == GremlinRows[i]
            IN  ~IsVertexTagged(item) =>
                  \/ IsEdgeTagged(item) /\ WellFormedEdge(item) /\ EdgeRow(row, item)
                  \/ /\ IsTagged(item) /\ ~IsEdgeTagged(item)
                     /\ row = JObj([value |-> item[2]["@value"]])
                  \/ item[1] # "dict" /\ row = JObj([value |-> item])

\* C28 as the code has it: besides the three shapes, an object without the
\* "@type"/"@value" pair is its own row, unchanged, and an edge-tagged
\* element that cannot be flattened is the row {"value": <the element>}.
C28_Classified ==
    (GremlinHandled /\ ResultForm(resp.response.body.doc) # "none") =>
        \A i \in 1..Len(Elements(resp.response.body.doc)) :
            LET item == Elements(resp.response.body.doc)[i]
                row == GremlinRows[i]
            IN  ~IsVertexTagged(item) =>
                  CASE WellFormedEdge(item) -> EdgeRow(row, item)
                    [] IsEdgeTagged(item) /\ ~WellFormedEdge(item) ->
                          row = JObj([value |-> item])
                    [] IsTagged(item) /\ ~IsEdgeTagged(item) ->
                          row = JObj([value |-> item[2]["@value"]])
                    [] item[1] = "dict" /\ ~IsTagged(item) -> row = item
                    [] OTHER -> row = JObj([value |-> item])

C28_Witness ==
    /\ GremlinHandled
    /\ ResultForm(resp.response.body.doc) = "data"
    /\ Len(GremlinRows) = 2
    /\ WellFormedEdge(Elements(resp.response.body.doc)[1])
    /\ GremlinRows[1][2].inV = JStr("v2")
    /\ "since" \in DOMAIN GremlinRows[1][2]
    /\ GremlinRows[2] = JObj([name |-> Alice])

\* The transformation raises outside the flattening of an element: the
\* document supports neither `in` nor indexing by "result", or the value
\* under result.data cannot be iterated.
OuterRaises(doc) ==
    \/ doc[1] \notin {"dict", "list", "str"}
    \/ doc[1] \in {"list", "str"} /\ PyIn("result", doc) = "True"
    \/ /\ doc[1] = "dict"
       /\ "result" \in DOMAIN doc[2]
       /\ doc[2].result[1] = "dict"
       /\ "data" \in DOMAIN doc[2].result[2]
       /\ doc[2].result[2].data[1] \notin {"list", "dict", "str"}

\* Flattening this element raises.
ItemRaises(item) == IsTagged(item) /\ FlattenItem(item).exc # None

WholeWrapped ==
    resp.result = JObj([results |-> JList(<<resp.response.body.doc>>)])

\* C29 as stated: the Gremlin transformer never raises, and whenever an
\* exception occurs in it, while flattening an element included, the
\* result is the single row holding the whole raw response.
C29_WholeResponseWrapped ==
    GremlinHandled =>
        /\ resp.exc = None
        /\ OuterRaises(resp.response.body.doc) => WholeWrapped
        /\ (\E i \in 1..Len(Elements(resp.response.body.doc)) :
               ItemRaises(Elements(resp.response.body.doc)[i])) => WholeWrapped

\* C29 as the code has it: the transformer never raises; an exception
\* outside the flattening of an element gives the single row holding the
\* whole raw response; an exception while flattening an element gives the
\* row {"value": <that element>} in the element's place, every other
\* element keeping its own row.
C29_NeverRaises ==
    GremlinHandled =>
        /\ resp.exc = None
        /\ OuterRaises(resp.response.body.doc) => WholeWrapped
        /\ ResultForm(resp.response.body.doc) \in {"data", "list", "scalar"} =>
              /\ Len(GremlinRows) = Len(Elements(resp.response.body.doc))
              /\ \A i \in 1..Len(GremlinRows) :
                    LET item == Elements(resp.response.body.doc)[i]
                    IN  /\ ItemRaises(item) => GremlinRows[i] = JObj([value |-> item])
                        /\ (IsTagged(item) /\ ~ItemRaises(item)) =>
                              GremlinRows[i] = FlattenItem(item).val

C29_Witness ==
    /\ GremlinHandled
    /\ Len(Elements(resp.response.body.doc)) = 2
    /\ ItemRaises(Elements(resp.response.body.doc)[1])
    /\ WellFormedVertex(Elements(resp.response.body.doc)[2])
    /\ GremlinRows[1] = JObj([value |-> Elements(resp.response.body.doc)[1]])
    /\ GremlinRows[2][2].type = JStr("vertex")

\* C30: test_connection ends with a boolean and never with an exception;
\* the boolean is true exactly when execute_sparql returned a result that
\* has the member 'results', and false when it raised (client or manager
\* not initialized, retries exhausted, any other error) or returned a
\* result without 'results'; and from the first step of test_connection
\* on, the client is initialized.
C30_TestConnection ==
    /\ test.pc # "off" => initialized
    /\ test.pc = "done" =>
          /\ test.value \in BOOLEAN
          /\ test.value <=> /\ test.returned
                            /\ test.result[1] = "dict"
                            /\ "results" \in DOMAIN test.result[2]
          /\ ~test.returned => test.caught # None

C30_Witness ==
    /\ test.pc = "done"
    /\ test.value
    /\ test.result = JObj([results |-> JList(<<JObj([boolean |-> JBool(FALSE)])>>)])

\* The last execute_query got a result from the client and took its rows,
\* and the store was not cleared since.
QuerySucceeded == svc.pc = "ready" /\ svc.executed /\ svc.returned.success = TRUE

\* The rows the client returned to the last successful query.
LastRows == PyGet(svc.raw.val, "results", JList(<<>>)).val[2]

\* C31: the store never holds more than max_results rows and max_results
\* never exceeds MEMORY_SAFE_LIMIT, whatever limit the service was
\* constructed with; after a query, is_truncated of get_memory_status is
\* true exactly when the query returned more than max_results rows, and
\* the store then holds the first max_results of them in order.
C31_StoreBounded ==
    svc.pc = "ready" =>
        /\ MemoryStatus(svc).max_results_limit <= MEMORY_SAFE_LIMIT
        /\ MemoryStatus(svc).current_result_count <= MemoryStatus(svc).max_results_limit
        /\ QuerySucceeded =>
              /\ MemoryStatus(svc).is_truncated <=> Len(LastRows) > svc.max_results
              /\ MemoryStatus(svc).is_truncated =>
                    svc._last_complete_results = SubSeq(LastRows, 1, svc.max_results)

Exported == svc.pc = "ready" /\ svc.executed /\ svc.export.success

QueryFailed == svc.pc = "ready" /\ svc.executed /\ svc.returned.success = FALSE

\* C34: execute_query returns whatever the client method did; when the
\* query failed it returns success = false with no rows and counts of
\* zero, the store is empty afterwards even if the query before had
\* filled it, and an export_last_results that follows fails with 'no
\* results available'.
C34_FailureEmptiesStore ==
    /\ svc.pc = "ready" /\ svc.executed => svc.returned.success \in BOOLEAN
    /\ QueryFailed =>
          /\ svc.returned.results = <<>>
          /\ svc.returned.result_count = 0
          /\ svc.returned.returned_count = 0
          /\ svc._last_complete_results = <<>>
          /\ ~svc._result_truncated_due_to_memory
          /\ svc.export.error \in {"not_called", "no_results"}
          /\ ~svc.export.success

C34_Witness ==
    /\ QueryFailed
    /\ svc.raw.exc = "TimeoutError"
    /\ svc.before = 2
    /\ svc.export.error = "no_results"

\* C35: after a successful execute_query on a service whose max_results
\* is not negative, with a max_ai_results that is not negative:
\* returned_count <= stored_result_count <= result_count,
\* stored_result_count <= max_results, and truncated is true exactly when
\* returned_count < result_count.
C35_CountsConsistent ==
    (QuerySucceeded /\ svc.max_results >= 0 /\ svc.returned.max_ai_results >= 0) =>
        /\ svc.returned.returned_count <= svc._last_query_metadata.stored_result_count
        /\ svc._last_query_metadata.stored_result_count <= svc.returned.result_count
        /\ svc._last_query_metadata.stored_result_count <= svc.max_results
        /\ svc.returned.truncated <=>
              svc.returned.returned_count < svc.returned.result_count

C35_Witness ==
    /\ QuerySucceeded
    /\ svc.max_results = 2
    /\ svc.returned.max_ai_results = 1
    /\ svc.returned.result_count = 3
    /\ svc._last_query_metadata.stored_result_count = 2
    /\ svc.returned.returned_count = 1
    /\ svc.returned.truncated

\* C39: a SPARQL request whose base timeout is 300 seconds is sent as
\* application/sparql-update, and a request sent as
\* application/sparql-query has the base timeout of 120 seconds; the long
\* timeout goes to exactly the texts that contain DELETE or CLEAR in any
\* casing.
C39_ClassificationsAgree ==
    (sig.pc = "signed" /\ sig.kind = "sparql") =>
        /\ sig.base_timeout \in {120, 300}
        /\ sig.base_timeout = 300 <=>
              (ContainsAnyCase(sig.body, K_DELETE) \/ ContainsAnyCase(sig.body, K_CLEAR))
        /\ sig.base_timeout = 300 => sig.content_type = "application/sparql-update"
        /\ sig.content_type = "application/sparql-query" => sig.base_timeout = 120

\* A clear in lower case, in a text with a substituted parameter, is sent
\* as an update with the long timeout.
C39_Witness ==
    /\ sig.pc = "signed"
    /\ sig.kind = "sparql"
    /\ sig.query = W_clear \o <<" ">> \o W_placeholder
    /\ sig.params # NoParams
    /\ sig.base_timeout = 300
    /\ sig.content_type = "application/sparql-update"

\* C40: no execute_* call ends with the 'Unexpected code path' exception:
\* a call whose loop is running (sending, waiting for a response or in
\* backoff) has retry_count < max_retries, and a finished call either
\* returned a result or raised the error of its last attempt (or the
\* not-initialized or signing error raised ahead of the loop).
C40_LoopLeftByReturnOrRaise ==
    \A c \in Calls :
        /\ call[c].raised.exc # "UnexpectedCodePath"
        /\ call[c].pc \in {"inflight", "sleeping"} /\ call[c].kind \in QueryKinds
              => LoopCond(call[c].retry_count)
        /\ call[c].pc = "done" /\ call[c].kind \in QueryKinds
              => \/ call[c].returned /\ call[c].raised = NoExc
                 \/ ~call[c].returned /\ call[c].raised # NoExc

\* A call that gave up after three timeouts, raising the third.
C40_Witness ==
    \E c \in Calls :
        /\ call[c].pc = "done"
        /\ call[c].kind \in QueryKinds
        /\ call[c].outcomes = <<"timeout", "connector", "timeout">>
        /\ call[c].retry_count = max_retries
        /\ call[c].raised.exc = "TimeoutError"
        /\ call[c].raised.attempt = max_retries

\* C36 as stated: when close() has run while a call waits in backoff, the
\* call's next attempt sends nothing and ends the call.
C36_CloseEndsCall ==
    [][\A c \in Calls :
          (ev = "close" /\ call[c].pc = "sleeping" /\ call'[c].pc # "sleeping") =>
              /\ call'[c].pc = "done"
              /\ call'[c].sent = call[c].sent
              /\ cm' = cm /\ heap' = heap]_vars

\* C36 as the code has it: the step that ends a backoff touches neither
\* the manager nor any session; when the manager then has no session or a
\* closed one, nothing is sent and the call ends at once with the
\* AttributeError or RuntimeError of the post, which no retry branch
\* catches; when it has an open session, its own or one created since by
\* another init_sparql, the attempt is sent on it.  close() leaves the
\* manager without a session only when the manager owns an open one; on a
\* manager that was handed its session it changes nothing.
C36_NoSessionBetweenAttempts ==
    [][/\ \A c \in Calls :
             (call[c].pc = "sleeping" /\ call'[c] # call[c]) =>
                 /\ cm' = cm /\ heap' = heap
                 /\ IF NeedsNewSession(cm, heap)
                    THEN /\ call'[c].pc = "done"
                         /\ call'[c].sent = call[c].sent
                         /\ call'[c].retry_count = call[c].retry_count
                         /\ call'[c].raised.exc \in {"AttributeError", "RuntimeError"}
                         /\ ~call'[c].raised.wrapped
                    ELSE /\ call'[c].pc = "inflight"
                         /\ call'[c].sent = call[c].sent + 1
       /\ ev' = "close" =>
             IF cm.owns_session /\ ~NeedsNewSession(cm, heap)
             THEN cm'.client_session = NoSession /\ Closed(heap', cm.client_session)
             ELSE cm' = cm /\ heap' = heap]_vars

\* A call whose first attempt timed out, whose session the manager closed
\* meanwhile, and whose second attempt was therefore never sent.
C36_Witness ==
    \E c \in Calls :
        /\ ev = "wake"
        /\ call[c].pc = "done"
        /\ call[c].outcomes = <<"timeout", "not_sent">>
        /\ call[c].sent = 1
        /\ Len(call[c].waits) = 1
        /\ call[c].raised.exc = "AttributeError"
        /\ cm.owns_session
        /\ cm.client_session = NoSession

\* C37: NeptuneClient.init() always comes back with the client marked
\* initialized; when the setup raised inside it, the manager is left with
\* no session and no SPARQL endpoint.  An execute_sparql of the client
\* that finds the manager without an open session runs the setup again,
\* and when that fails too the call ends with the 'not initialized' error
\* of the manager and has sent nothing.
C37_InitFailureDeferred ==
    [][/\ ev' = "client_init" =>
             /\ initialized'
             /\ init_result' = "failed" =>
                   cm'.client_session = NoSession /\ cm'.sparql_endpoint = None
       /\ \A c \in Calls :
             (/\ ev' \in ClientEvs
              /\ call'[c] # call[c]
              /\ call'[c].kind = "sparql"
              /\ initialized
              /\ NeedsNewSession(cm, heap)) =>
                 /\ init_result' \in {"ok", "failed"}
                 /\ init_result' = "failed" =>
                       /\ ev' = "client_enter_not_initialized"
                       /\ call'[c].pc = "done"
                       /\ call'[c].raised.exc = "NotInitialized"
                       /\ call'[c].sent = 0
                       /\ cm'.client_session = NoSession]_vars

\* The client is marked initialized although no setup has succeeded, and
\* its execute_sparql has just failed the setup again.
C37_Witness ==
    \E c \in Calls :
        /\ ev = "client_enter_not_initialized"
        /\ init_result = "failed"
        /\ initialized
        /\ cm.credentials = "unset"
        /\ cm.sparql_endpoint = None
        /\ call[c].pc = "done"
        /\ call[c].raised.exc = "NotInitialized"
        /\ call[c].sent = 0

\* C38: when run() has returned, close() has been called on every client
\* whose init() created a session, and no session is open.
C38_ClientsClosed ==
    shell.pc = "run_returned" =>
        /\ \A i \in 1..Len(shell.clients) :
              shell.clients[i].session # NoSession => shell.clients[i].close_called
        /\ \A s \in SessionIds : heap[s] # "open"

\* C33: a line that asks to leave the AI conversation (an empty line,
\* /back, /quit, /exit or an exit word) returns the shell to the main
\* interface: no loop of the conversation prompts again after it.
C33_OneExitLeaves ==
    (shell.pc \in {"chat_prompt", "chat_main"} /\ shell.left) => shell.pc = "chat_main"

============================================================================
